---- MODULE Spec2Model ----
(***************************************************************************)
(* A model of the remote session protocol client (StagehandAPIClient):     *)
(* session start, dispatch of a remote operation with incremental decode   *)
(* of the streamed response, session end and replay metrics.               *)
(*                                                                         *)
(* Text is modelled as a sequence of tokens.  NL is one newline character; *)
(* every other token is a fragment of text that contains no newline:       *)
(*   F1, F2  data: {"type":"system","data":{"status":"finished","result":..}}*)
(*   E1      data: {"type":"system","data":{"status":"error","error":..}}  *)
(*   L1, L2  data: {"type":"log","data":{"message":{..}}}                  *)
(*   Lc      the same, with message "Connecting to local browser"          *)
(*   N       data: null         (JSON, but not an object)                  *)
(*   X       data: {oops        (the prefix, then text that is no JSON)    *)
(*   C       : keepalive        (text without the data prefix)             *)
(* A chunk boundary may fall between any two tokens, so inside a record    *)
(* and between the two newlines of a record separator.                     *)
(*                                                                         *)
(* The second part models the agent step orchestrator (V3AgentHandler) in  *)
(* its two variants: the base handler with execute and stream, and the     *)
(* handler with the step hooks on_step_start and on_step_end.              *)
(***************************************************************************)
EXTENDS Integers, Sequences, FiniteSets, TLC

VARIABLES
    sessionId,      \* this.sessionId
    modelApiKey,    \* this.modelApiKey
    requests,       \* the requests the call in progress has handed to fetch
    call,           \* the client method in progress or last finished
    pc,             \* "idle" | "reading" | "folding" | "done"
    response,       \* the response the in-progress call received
    pos,            \* tokens of the response body the reader has delivered
    eof,            \* the reader has reported done
    buffer,         \* execute: let buffer
    logs,           \* calls of this.logger by the call in progress, in order
    processed,      \* records execute has examined, with the reader position then
    outcome,        \* what the call returned or threw
    initArgs,       \* init: the arguments and the response of the call
    metrics,        \* getReplayMetrics: const metrics
    lastAction,     \* getReplayMetrics: the action of the last pass of the inner loop
    unrecognised,   \* usage folded so far under a method that is none of the four
    pages,          \* getReplayMetrics: passes of the outer loop so far
    folded,         \* getReplayMetrics: passes of the inner loop so far
    run,            \* the handler and the options of the agent run in progress
    apc,            \* "idle" | "stepping" | "finishing" | "done" | "failed"
    state,          \* execute/stream: const state (the locals of the hooked execute)
    stepCount,      \* result.steps.length of generateText/streamText
    currentStepNumber, \* hooked execute: let currentStepNumber
    lastStep,       \* result.steps[result.steps.length - 1]
    stepLog,        \* what the last model step did, in order
    history,        \* what the model, the page and the hooks of the run did so far
    plain,          \* the state the same model steps give a handler without hooks
    agentResult,    \* what execute returned or threw, or how stream's result settled
    metricsUpdates, \* how often the run folded its usage and duration into the metrics
    suspended,      \* the locals of the other call on the handler, waiting at an await
    interleaved,    \* whether the two calls have both been under way at once
    cuaAction,      \* the action the action handler was called with
    cuaEnv,         \* what the page and v3 answered during that call
    pageCalls,      \* the page primitives executeAction invoked, in order
    replaySteps,    \* the steps handed to v3.recordAgentReplayStep, in order
    handled         \* how the call of the action handler ended

vars == <<sessionId, modelApiKey, requests, call, pc, response, pos, eof,
          buffer, logs, processed, outcome, initArgs, metrics, lastAction,
          unrecognised, pages, folded, run, apc, state, stepCount,
          currentStepNumber, lastStep, stepLog, history, plain, agentResult,
          metricsUpdates, suspended, interleaved, cuaAction, cuaEnv, pageCalls, replaySteps, handled>>

agentVars == <<run, apc, state, stepCount, currentStepNumber, lastStep, stepLog,
               history, plain, agentResult, metricsUpdates, suspended, interleaved>>
clientVars == <<sessionId, modelApiKey>>
streamVars == <<pos, eof, buffer, logs, processed>>
metricVars == <<metrics, lastAction, unrecognised, pages, folded>>
cuaVars == <<cuaAction, cuaEnv, pageCalls, replaySteps, handled>>

----------------------------------------------------------------------------
(* Bounds *)

MaxPieces == 4      \* pieces (fragments, newlines, separators) of a response body
MaxChunk == 3       \* tokens one reader.read() delivers at most
MaxPages == 2       \* pages of a replay response
MaxActions == 3     \* actions of a replay response, over all its pages

----------------------------------------------------------------------------
(* Text *)

NL == "NL"
SEP == <<NL, NL>>

FinishedTokens == {"F1", "F2"}
LogTokens == {"L1", "L2", "Lc"}
JsonTokens == FinishedTokens \cup LogTokens \cup {"E1", "N"}
DataTokens == JsonTokens \cup {"X"}
TextTokens == DataTokens \cup {"C"}

Unset == "undefined"
None == "none"

\* String.prototype.split("\n\n"): the pieces between non-overlapping separators,
\* scanning left to right; always at least one piece.
RECURSIVE SplitFrom(_, _, _)
SplitFrom(s, i, cur) ==
    IF i > Len(s) THEN <<cur>>
    ELSE IF i < Len(s) /\ s[i] = NL /\ s[i + 1] = NL
         THEN <<cur>> \o SplitFrom(s, i + 2, <<>>)
         ELSE SplitFrom(s, i + 1, Append(cur, s[i]))

Split(s) == SplitFrom(s, 1, <<>>)

Front(s) == SubSeq(s, 1, Len(s) - 1)
Last(s) == s[Len(s)]

\* line.startsWith("data: ")
StartsWithData(line) == Len(line) > 0 /\ Head(line) \in DataTokens

\* buffer.trim(): truthy when something other than whitespace is left
TrimNonEmpty(s) == \E i \in 1..Len(s) : s[i] # NL

\* The object a JSON payload decodes to.
Event(tok) ==
    CASE tok = "F1" -> [type |-> "system", status |-> "finished", payload |-> "r1"]
      [] tok = "F2" -> [type |-> "system", status |-> "finished", payload |-> "r2"]
      [] tok = "E1" -> [type |-> "system", status |-> "error", payload |-> "boom"]
      [] tok = "L1" -> [type |-> "log", status |-> "", payload |-> "m1"]
      [] tok = "L2" -> [type |-> "log", status |-> "", payload |-> "m2"]
      [] tok = "Lc" -> [type |-> "log", status |-> "",
                        payload |-> "Connecting to local browser"]
      [] tok = "N" -> [type |-> "null", status |-> "", payload |-> ""]

NoEvent == [type |-> "", status |-> "", payload |-> ""]

\* JSON null: reading a property of it raises a TypeError.
IsNull(event) == event.type = "null"

\* JSON.parse(line.slice(6)) of a line that starts with the data prefix: the text
\* decodes when it is one JSON value with nothing but whitespace after it.
ParseJSON(line) ==
    IF Head(line) \in JsonTokens /\ \A i \in 2..Len(line) : line[i] = NL
    THEN [ok |-> TRUE, event |-> Event(Head(line)), msg |-> ""]
    ELSE [ok |-> FALSE, event |-> NoEvent,
          msg |-> IF Head(line) \in JsonTokens
                  THEN "Unexpected non-whitespace character after JSON"
                  ELSE "Unexpected token o in JSON"]

----------------------------------------------------------------------------
(* Results and errors.  status and text are the parts of the error message  *)
(* that vary: text is the result for a return.                              *)

Outcome(kind, status, text) ==
    [kind |-> kind, status |-> status, text |-> text, available |-> FALSE]

NoOutcome == Outcome(None, 0, "")
Return(result) == Outcome("return", 0, result)
PlainError(msg) == Outcome("Error", 0, msg)
StagehandServerError == Outcome("StagehandServerError", 0,
                                "Stream ended without completion signal")
StagehandResponseParseError(msg) == Outcome("StagehandResponseParseError", 0, msg)
StagehandResponseBodyError == Outcome("StagehandResponseBodyError", 0, "")
TypeError == Outcome("TypeError", 0, "Cannot read properties of null")

\* A logger call: a forwarded log message, or a line of category "api".
LogEntry(category, text) == [category |-> category, text |-> text]

----------------------------------------------------------------------------
(* execute: the decode loop *)

\* What one record does to the call: the outcome it ends the call with (NoOutcome
\* when the loop goes on) and the logger calls it makes.
Step(out, entries) == [outcome |-> out, logs |-> entries]

\* HandleEvent with the return on a finished event left out.
HandleEvent_NoReturn(event) ==
    IF IsNull(event) THEN Step(TypeError, <<>>)
    ELSE IF event.type = "system" /\ event.status = "error"
    THEN Step(PlainError(event.payload), <<>>)
    ELSE IF event.type = "log" /\ event.payload # "Connecting to local browser"
    THEN Step(NoOutcome, <<LogEntry("log", event.payload)>>)
    ELSE Step(NoOutcome, <<>>)

\* HandleEvent with the server's error caught and wrapped like a decode failure.
HandleEvent_WrapError(event) ==
    IF IsNull(event) THEN Step(TypeError, <<>>)
    ELSE IF event.type = "system" /\ event.status = "error"
    THEN Step(StagehandResponseParseError(event.payload), <<LogEntry("api", event.payload)>>)
    ELSE IF event.type = "system" /\ event.status = "finished"
    THEN Step(Return(event.payload), <<>>)
    ELSE IF event.type = "log" /\ event.payload # "Connecting to local browser"
    THEN Step(NoOutcome, <<LogEntry("log", event.payload)>>)
    ELSE Step(NoOutcome, <<>>)

\* HandleEvent forwarding every log event, the server-internal one too.
HandleEvent_ForwardAll(event) ==
    IF IsNull(event) THEN Step(TypeError, <<>>)
    ELSE IF event.type = "system" /\ event.status = "error"
    THEN Step(PlainError(event.payload), <<>>)
    ELSE IF event.type = "system" /\ event.status = "finished"
    THEN Step(Return(event.payload), <<>>)
    ELSE IF event.type = "log" THEN Step(NoOutcome, <<LogEntry("log", event.payload)>>)
    ELSE Step(NoOutcome, <<>>)

\* The try block of the loop, for a decoded event.
HandleEvent(event) ==
    IF IsNull(event) THEN Step(TypeError, <<>>)
    ELSE IF event.type = "system"
    THEN IF event.status = "error" THEN Step(PlainError(event.payload), <<>>)
         ELSE IF event.status = "finished" THEN Step(Return(event.payload), <<>>)
         ELSE Step(NoOutcome, <<>>)
    ELSE IF event.type = "log"
    THEN IF event.payload = "Connecting to local browser"
         THEN Step(NoOutcome, <<>>)
         ELSE Step(NoOutcome, <<LogEntry("log", event.payload)>>)
    ELSE Step(NoOutcome, <<>>)

\* HandleSyntaxError with the decode failure left out of the error.
HandleSyntaxError_NoDetail(msg) ==
    Step(StagehandResponseParseError(""), <<LogEntry("api", msg)>>)

\* The catch block of the loop, for a SyntaxError of JSON.parse.
HandleSyntaxError(msg) ==
    Step(StagehandResponseParseError(msg), <<LogEntry("api", msg)>>)

\* One pass of the for loop's body over a complete record.
HandleLine(line) ==
    IF ~StartsWithData(line) THEN Step(NoOutcome, <<>>)
    ELSE LET parsed == ParseJSON(line)
         IN IF parsed.ok THEN HandleEvent(parsed.event)
            ELSE HandleSyntaxError(parsed.msg)

\* The state of a pass of the while loop: the call's outcome so far, the buffer,
\* the logger calls made and the records examined.
Pass(out, buf, entries, seen) ==
    [outcome |-> out, buffer |-> buf, logs |-> entries, examined |-> seen]

Examined(line, final) == [line |-> line, final |-> final]

\* for (const line of lines): stops at the first record that ends the call.
RECURSIVE ProcessLines(_, _, _)
ProcessLines(lines, i, st) ==
    IF i > Len(lines) THEN st
    ELSE LET r == HandleLine(lines[i])
             nxt == Pass(r.outcome, st.buffer, st.logs \o r.logs,
                         Append(st.examined, Examined(lines[i], FALSE)))
         IN IF r.outcome # NoOutcome THEN nxt
            ELSE ProcessLines(lines, i + 1, nxt)

\* FinalBuffer raising the decode failure of the last record, as the loop does.
FinalBuffer_Raise(st) ==
    IF TrimNonEmpty(st.buffer) /\ StartsWithData(st.buffer) /\ ~ParseJSON(st.buffer).ok
    THEN Pass(StagehandResponseParseError(ParseJSON(st.buffer).msg), st.buffer, st.logs,
              Append(st.examined, Examined(st.buffer, TRUE)))
    ELSE IF TrimNonEmpty(st.buffer) /\ StartsWithData(st.buffer)
            /\ ParseJSON(st.buffer).event.status = "finished"
    THEN Pass(Return(ParseJSON(st.buffer).event.payload), st.buffer, st.logs,
              Append(st.examined, Examined(st.buffer, TRUE)))
    ELSE Pass(StagehandServerError, st.buffer, st.logs, st.examined)

\* FinalBuffer handling the last record as the loop handles a complete one.
FinalBuffer_AsLine(st) ==
    IF TrimNonEmpty(st.buffer) /\ StartsWithData(st.buffer)
    THEN LET r == HandleLine(st.buffer)
         IN  Pass(IF r.outcome = NoOutcome THEN StagehandServerError ELSE r.outcome,
                  st.buffer, st.logs \o r.logs,
                  Append(st.examined, Examined(st.buffer, TRUE)))
    ELSE Pass(StagehandServerError, st.buffer, st.logs, st.examined)

\* if (done): what is left in the buffer when the stream has ended.
FinalBuffer(st) ==
    IF TrimNonEmpty(st.buffer) /\ StartsWithData(st.buffer)
    THEN LET parsed == ParseJSON(st.buffer)
             seen == Append(st.examined, Examined(st.buffer, TRUE))
         IN IF parsed.ok /\ ~IsNull(parsed.event)
            THEN IF parsed.event.type = "system" /\ parsed.event.status = "finished"
                 THEN Pass(Return(parsed.event.payload), st.buffer, st.logs, seen)
                 ELSE Pass(StagehandServerError, st.buffer, st.logs, seen)
            ELSE Pass(StagehandServerError, st.buffer,
                      Append(st.logs, LogEntry("api", "Incomplete data in final buffer")),
                      seen)
    ELSE Pass(StagehandServerError, st.buffer, st.logs, st.examined)

\* Iteration splitting each chunk by itself, nothing kept from the one before.
Iteration_NoBuffer(buf, value, done) ==
    IF done /\ buf = <<>>
    THEN Pass(StagehandServerError, buf, <<>>, <<>>)
    ELSE LET lines == Split(value)
             st == ProcessLines(Front(lines), 1, Pass(NoOutcome, Last(lines), <<>>, <<>>))
         IN IF st.outcome # NoOutcome THEN st
            ELSE IF done THEN FinalBuffer(st)
            ELSE st

\* One pass of while (true), after reader.read() gave (value, done).
Iteration(buf, value, done) ==
    IF done /\ buf = <<>>
    THEN Pass(StagehandServerError, buf, <<>>, <<>>)
    ELSE LET lines == Split(buf \o value)
             st == ProcessLines(Front(lines), 1, Pass(NoOutcome, Last(lines), <<>>, <<>>))
         IN IF st.outcome # NoOutcome THEN st
            ELSE IF done THEN FinalBuffer(st)
            ELSE st

----------------------------------------------------------------------------
(* The data of init and of getReplayMetrics *)

\* The arguments of init that it reads: None stands for an argument left out.
InitArgs(key, region, id) ==
    [modelApiKey |-> key, region |-> region, browserbaseSessionID |-> id]

\* The response to POST /sessions/start: the status, the raw body, and the
\* fields of the body when it is the JSON {success, data: {sessionId, available},
\* message}.
StartResponse(status, text, success, id, available, message) ==
    [status |-> status, text |-> text, success |-> success, sessionId |-> id,
     available |-> available, message |-> message]

NoStartResponse == StartResponse(0, "", FALSE, "", FALSE, "")

NoInit == [args |-> InitArgs(None, None, None), response |-> NoStartResponse]

Categories == {"act", "extract", "observe", "agent"}
Counters == {"PromptTokens", "CompletionTokens", "ReasoningTokens",
             "CachedInputTokens", "InferenceTimeMs"}

\* The field of tokenUsage that a counter is fed from.
UsageField(c) ==
    CASE c = "PromptTokens" -> "inputTokens"
      [] c = "CompletionTokens" -> "outputTokens"
      [] c = "ReasoningTokens" -> "reasoningTokens"
      [] c = "CachedInputTokens" -> "cachedInputTokens"
      [] c = "InferenceTimeMs" -> "timeMs"

\* A field that the record does not have.
Missing == 0 - 1

Usage(i, o, r, c, t) ==
    [inputTokens |-> i, outputTokens |-> o, reasoningTokens |-> r,
     cachedInputTokens |-> c, timeMs |-> t]

NoUsage == Usage(Missing, Missing, Missing, Missing, Missing)

\* An action of a replay page; method None: the action has no method.
ReplayAction(method, hasUsage, usage) ==
    [method |-> method, hasUsage |-> hasUsage, tokenUsage |-> usage]

NoAction == ReplayAction(None, FALSE, NoUsage)

\* ToLower left out: the method is compared as it was sent.
ToLower_Identity(m) == m

\* String.prototype.toLowerCase, on the method names of the model.
ToLower(m) ==
    CASE m = "ACT" -> "act"
      [] m = "Extract" -> "extract"
      [] m = "Agent" -> "agent"
      [] m = "agentExecute" -> "agentexecute"
      [] OTHER -> m

\* (action.method || "").toLowerCase()
MethodOf(action) == IF action.method = None THEN "" ELSE ToLower(action.method)

\* tokenUsage.<field> || 0
OrZero(v) == IF v = Missing THEN 0 ELSE v

ZeroMetrics == [g \in Categories \cup {"total"} |-> [c \in Counters |-> 0]]

\* The variables of a call a method does not use are as a new call finds them.
NoStream == pos' = 0 /\ eof' = FALSE /\ buffer' = <<>> /\ processed' = <<>>
NoInitCall == initArgs' = NoInit
NoReplay ==
    /\ metrics' = ZeroMetrics
    /\ lastAction' = NoAction
    /\ unrecognised' = [c \in Counters |-> 0]
    /\ pages' = 0
    /\ folded' = 0

----------------------------------------------------------------------------
(* request, and execute up to the decode loop *)

\* request(path, options): the request handed to fetch.
Request(method, path, key) ==
    [method |-> method, path |-> path, session |-> sessionId, modelKey |-> key]

Ok(resp) == resp.status >= 200 /\ resp.status <= 299

Response(status, text, hasBody, body) ==
    [status |-> status, text |-> text, hasBody |-> hasBody, body |-> body]

NoResponse == Response(0, "", FALSE, <<>>)

HttpError(status, text) == Outcome("StagehandHttpError", status, text)

\* ExecuteStart without the check of response.ok.
ExecuteStart_NoOkCheck(resp) ==
    IF ~resp.hasBody THEN StagehandResponseBodyError ELSE NoOutcome

\* execute, from the request to the first read.
ExecuteStart(resp) ==
    IF ~Ok(resp) THEN HttpError(resp.status, resp.text)
    ELSE IF ~resp.hasBody THEN StagehandResponseBodyError
    ELSE NoOutcome

Operations == {"act", "extract", "observe", "navigate", "agentExecute"}

\* act, extract, observe, goto, agentExecute: each calls execute with its method.
Execute(op, resp) ==
    /\ pc \in {"idle", "done"}
    /\ call' = op
    /\ requests' = <<Request("POST", <<"sessions", sessionId, op>>, modelApiKey)>>
    /\ response' = resp
    /\ outcome' = ExecuteStart(resp)
    /\ pc' = IF ExecuteStart(resp) = NoOutcome THEN "reading" ELSE "done"
    /\ logs' = <<>>
    /\ NoStream
    /\ NoInitCall
    /\ NoReplay
    /\ UNCHANGED <<clientVars, agentVars, cuaVars>>

\* One pass of the decode loop: reader.read() delivers the next k tokens of the
\* body, or reports done when the body is exhausted.
Read(k) ==
    /\ pc = "reading"
    /\ LET done == pos = Len(response.body)
           value == IF done THEN <<>> ELSE SubSeq(response.body, pos + 1, pos + k)
           st == Iteration(buffer, value, done)
       IN /\ IF done THEN k = 1 ELSE pos + k <= Len(response.body)
          /\ pos' = pos + Len(value)
          /\ eof' = done
          /\ buffer' = st.buffer
          /\ logs' = logs \o st.logs
          /\ processed' = processed \o
                [i \in 1..Len(st.examined) |->
                    [line |-> st.examined[i].line, final |-> st.examined[i].final,
                     at |-> pos + Len(value)]]
          /\ outcome' = st.outcome
          /\ pc' = IF st.outcome # NoOutcome THEN "done" ELSE "reading"
    /\ UNCHANGED <<clientVars, requests, call, response, initArgs, metricVars,
                   agentVars, cuaVars>>

----------------------------------------------------------------------------
(* The responses a dispatch may receive *)

Pieces == {<<t>> : t \in TextTokens} \cup {<<NL>>, SEP}

RECURSIVE BodiesOf(_)
BodiesOf(n) ==
    IF n = 0 THEN {<<>>}
    ELSE LET prev == BodiesOf(n - 1)
         IN prev \cup {b \o p : b \in prev, p \in Pieces}

Bodies == BodiesOf(MaxPieces)

DispatchResponses ==
    {Response(s, t, FALSE, <<>>) : s \in {401, 500}, t \in {"b1", "b2"}}
    \cup {Response(s, "b3", TRUE, <<"F1", NL, NL>>) : s \in {401, 500}}
    \cup {Response(s, "", FALSE, <<>>) : s \in {200, 204}}
    \cup {Response(200, "", TRUE, b) : b \in Bodies}

----------------------------------------------------------------------------
(* init *)

\* What init returns: data.sessionId and data.available.
StartSessionResult(id, available) ==
    [kind |-> "return", status |-> 0, text |-> id, available |-> available]

StagehandAPIError(msg) == Outcome("StagehandAPIError", 0, msg)
StagehandAPIUnauthorizedError ==
    Outcome("StagehandAPIUnauthorizedError", 0,
            "Unauthorized. Ensure you provided a valid API key.")

\* new StagehandHttpError(`Unknown error: ${sessionResponse.status}`)
StartHttpError(status, text) == Outcome("StagehandHttpError", status, "")

\* InitBefore without the look at the region.
InitBefore_AnyRegion(args) ==
    IF args.modelApiKey = None THEN StagehandAPIError("modelApiKey is required")
    ELSE NoOutcome

\* init, before the request: the outcome that ends it there, if any.
InitBefore(args) ==
    IF args.modelApiKey = None THEN StagehandAPIError("modelApiKey is required")
    ELSE IF args.region # None /\ args.region # "us-west-2"
    THEN StartSessionResult(IF args.browserbaseSessionID = None THEN "null"
                            ELSE args.browserbaseSessionID, FALSE)
    ELSE NoOutcome

\* init, after the request: what it returns or throws for the response.
InitAfter(args, resp) ==
    IF resp.status = 401 THEN StagehandAPIUnauthorizedError
    ELSE IF resp.status # 200 THEN StartHttpError(resp.status, resp.text)
    ELSE IF ~resp.success THEN StagehandAPIError(resp.message)
    ELSE IF ~resp.available /\ args.browserbaseSessionID # None
    THEN StartSessionResult(args.browserbaseSessionID, resp.available)
    ELSE StartSessionResult(resp.sessionId, resp.available)

\* InitSessionId storing the id that init returns.
InitSessionId_Rerouted(args, resp, cur) ==
    IF resp.status = 200 /\ resp.success THEN InitAfter(args, resp).text ELSE cur

\* InitSessionId storing the id before the response has been checked.
InitSessionId_Unchecked(args, resp, cur) == resp.sessionId

\* this.sessionId after init has handled the response.
InitSessionId(args, resp, cur) ==
    IF resp.status = 200 /\ resp.success THEN resp.sessionId ELSE cur

\* The logger calls of init after the request.
InitLogs(resp) ==
    IF resp.status # 401 /\ resp.status # 200
    THEN <<LogEntry("init", "Creating new browserbase session..."),
           LogEntry("api", resp.text)>>
    ELSE <<LogEntry("init", "Creating new browserbase session...")>>

Init(args, resp) ==
    /\ pc \in {"idle", "done"}
    /\ call' = "init"
    /\ pc' = "done"
    /\ initArgs' = [args |-> args, response |-> resp]
    /\ modelApiKey' = IF args.modelApiKey = None THEN modelApiKey ELSE args.modelApiKey
    /\ IF InitBefore(args) # NoOutcome
       THEN /\ outcome' = InitBefore(args)
            /\ requests' = <<>>
            /\ logs' = <<>>
            /\ UNCHANGED sessionId
       ELSE /\ requests' = <<Request("POST", <<"sessions", "start">>, args.modelApiKey)>>
            /\ outcome' = InitAfter(args, resp)
            /\ sessionId' = InitSessionId(args, resp, sessionId)
            /\ logs' = InitLogs(resp)
    /\ response' = NoResponse
    /\ NoStream
    /\ NoReplay
    /\ UNCHANGED <<agentVars, cuaVars>>

----------------------------------------------------------------------------
(* end *)

End(resp) ==
    /\ pc \in {"idle", "done"}
    /\ call' = "end"
    /\ pc' = "done"
    /\ requests' = <<Request("POST", <<"sessions", sessionId, "end">>, modelApiKey)>>
    /\ response' = resp
    /\ outcome' = Outcome("return", resp.status, resp.text)
    /\ logs' = <<>>
    /\ NoStream
    /\ NoInitCall
    /\ NoReplay
    /\ UNCHANGED <<clientVars, agentVars, cuaVars>>

----------------------------------------------------------------------------
(* getReplayMetrics *)

\* AddUsage with every total fed from inputTokens.
AddUsage_TotalsFromInput(m, action) ==
    IF ~action.hasUsage THEN m
    ELSE [g \in Categories \cup {"total"} |->
            [c \in Counters |->
                IF g = "total" THEN m[g][c] + OrZero(action.tokenUsage.inputTokens)
                ELSE IF g = MethodOf(action)
                THEN m[g][c] + OrZero(action.tokenUsage[UsageField(c)])
                ELSE m[g][c]]]

\* The body of the inner loop: the metrics after one more action.
AddUsage(m, action) ==
    IF ~action.hasUsage THEN m
    ELSE [g \in Categories \cup {"total"} |->
            [c \in Counters |->
                IF g = "total" \/ g = MethodOf(action)
                THEN m[g][c] + OrZero(action.tokenUsage[UsageField(c)])
                ELSE m[g][c]]]

\* The response to GET /sessions/{id}/replay, without data.pages.
ReplayResponse(status, text, success, error) ==
    [status |-> status, text |-> text, hasBody |-> TRUE, body |-> <<>>,
     success |-> success, error |-> error]

ReplayHttpError(status, text) == Outcome("StagehandHttpError", status, text)

\* getReplayMetrics after the request, up to the loops.
ReplayStart(resp) ==
    IF resp.status # 200 THEN ReplayHttpError(resp.status, resp.text)
    ELSE IF ~resp.success
    THEN StagehandAPIError(IF resp.error = None THEN "Unknown error" ELSE resp.error)
    ELSE NoOutcome

GetReplayMetrics(resp) ==
    /\ pc \in {"idle", "done"}
    /\ call' = "getReplayMetrics"
    /\ NoStream
    /\ NoInitCall
    /\ NoReplay
    /\ IF sessionId = Unset
       THEN /\ outcome' = StagehandAPIError("sessionId is required to fetch metrics.")
            /\ requests' = <<>>
            /\ response' = NoResponse
            /\ logs' = <<>>
            /\ pc' = "done"
       ELSE /\ requests' = <<Request("GET", <<"sessions", sessionId, "replay">>,
                                     modelApiKey)>>
            /\ response' = resp
            /\ outcome' = ReplayStart(resp)
            /\ logs' = IF resp.status # 200 THEN <<LogEntry("api", resp.text)>> ELSE <<>>
            /\ pc' = IF ReplayStart(resp) = NoOutcome THEN "folding" ELSE "done"
    /\ UNCHANGED <<clientVars, agentVars, cuaVars>>

\* for (const page of pages): the next page is entered.
NextPage ==
    /\ pc = "folding"
    /\ pages < MaxPages
    /\ pages' = pages + 1
    /\ UNCHANGED <<clientVars, requests, call, pc, response, streamVars, outcome,
                   initArgs, metrics, lastAction, unrecognised, folded, agentVars, cuaVars>>

\* for (const action of actions): one pass, over the next action of the page.
FoldAction(action) ==
    /\ pc = "folding"
    /\ pages > 0
    /\ folded < MaxActions
    /\ folded' = folded + 1
    /\ lastAction' = action
    /\ metrics' = AddUsage(metrics, action)
    /\ unrecognised' =
         [c \in Counters |->
            IF action.hasUsage
               /\ action.method \notin {"act", "ACT", "extract", "Extract",
                                        "observe", "agent", "Agent"}
               /\ action.tokenUsage[UsageField(c)] # Missing
            THEN unrecognised[c] + action.tokenUsage[UsageField(c)]
            ELSE unrecognised[c]]
    /\ UNCHANGED <<clientVars, requests, call, pc, response, streamVars, outcome,
                   initArgs, pages, agentVars, cuaVars>>

\* return metrics
ReturnMetrics ==
    /\ pc = "folding"
    /\ pc' = "done"
    /\ outcome' = Return("metrics")
    /\ UNCHANGED <<clientVars, requests, call, response, streamVars, initArgs,
                   metricVars, agentVars, cuaVars>>

----------------------------------------------------------------------------
(* The agent step orchestrator: text, tool calls, agent state *)

MaxSteps == 3       \* options.maxSteps of a run, at most

BaseDefaultMaxSteps == 20
HookedDefaultMaxSteps == 10

\* Text is a sequence of words; Blank is one space character.
Blank == " "

\* array.join(" ")
RECURSIVE Join(_)
Join(texts) ==
    IF texts = <<>> THEN <<>>
    ELSE IF Len(texts) = 1 THEN texts[1]
    ELSE texts[1] \o <<Blank>> \o Join(Tail(texts))

RECURSIVE TrimStart(_)
TrimStart(text) ==
    IF text # <<>> /\ Head(text) = Blank THEN TrimStart(Tail(text)) ELSE text

RECURSIVE TrimEnd(_)
TrimEnd(text) ==
    IF text # <<>> /\ text[Len(text)] = Blank
    THEN TrimEnd(SubSeq(text, 1, Len(text) - 1))
    ELSE text

\* string.trim()
Trim(text) == TrimEnd(TrimStart(text))

\* One tool call of a step, with the actions mapToolResultToActions gives for it.
ToolCall(toolName, taskComplete, reasoning, mapped) ==
    [toolName |-> toolName, taskComplete |-> taskComplete, reasoning |-> reasoning,
     mapped |-> mapped]

\* StepResult: what onStepFinish receives.
StepEvent(text, toolCalls) == [text |-> text, toolCalls |-> toolCalls]

NoStep == StepEvent(<<>>, <<>>)

AgentAction(type, pageUrl) == [type |-> type, pageUrl |-> pageUrl]

AgentState(collectedReasoning, actions, finalMessage, completed, currentPageUrl) ==
    [collectedReasoning |-> collectedReasoning, actions |-> actions,
     finalMessage |-> finalMessage, completed |-> completed,
     currentPageUrl |-> currentPageUrl]

\* const state: AgentState = {...} of execute and stream.
InitialState(initialPageUrl) == AgentState(<<>>, <<>>, <<>>, FALSE, initialPageUrl)

NoState == InitialState(None)

Error(name, message) == [name |-> name, message |-> message]

NoError == Error(None, <<>>)

MissingLLMConfigurationError ==
    Error("MissingLLMConfigurationError", <<"no LLM configuration">>)

\* What awaitActivePage().url() and the model client throw.
PageError == Error("Error", <<"no active page">>)
ModelError == Error("Error", <<"model call failed">>)
ToolError == Error("Error", <<"tool failed">>)

\* What (await this.v3.context.awaitActivePage()).url() does: it gives the
\* URL, or it raises PageError.
Page(url, raises) == [url |-> url, raises |-> raises]

AgentResult(success, message, actions, completed) ==
    [success |-> success, message |-> message, actions |-> actions,
     completed |-> completed]

NoAgentResult == AgentResult(FALSE, <<>>, <<>>, FALSE)

\* How a call ended: execute "returned" a result or "raised"; stream "raised"
\* or left its result promise "pending", then "resolved" or "rejected".
Settled(kind, value, error) == [kind |-> kind, value |-> value, error |-> error]

Unsettled == Settled(None, NoAgentResult, NoError)
Pending == Settled("pending", NoAgentResult, NoError)
Returned(value) == Settled("returned", value, NoError)
Raised(error) == Settled("raised", NoAgentResult, error)
Resolved(value) == Settled("resolved", value, NoError)
Rejected(error) == Settled("rejected", NoAgentResult, error)

\* const errorMessage = error?.message ?? String(error); every error of the
\* model is an Error object with a message.
ErrorMessage(error) == error.message

\* The catch of execute.
FailedResult(st, error) ==
    AgentResult(FALSE, <<"Failed to execute task: ">> \o ErrorMessage(error),
                st.actions, FALSE)

----------------------------------------------------------------------------
(* createStepHandler, handleStop, consolidateMetricsAndResult *)

CloseMessage_CloseOnly(collectedReasoning, closeReasoning) ==
    IF closeReasoning # <<>> THEN closeReasoning
    ELSE <<"Task completed successfully">>

\* state.finalMessage of a close call with taskComplete.
CloseMessage(collectedReasoning, closeReasoning) ==
    IF closeReasoning # <<>>
    THEN Trim(Join(collectedReasoning) \o <<Blank>> \o closeReasoning)
    ELSE IF Join(collectedReasoning) # <<>>
         THEN Join(collectedReasoning)
         ELSE <<"Task completed successfully">>

PushActions_Front(actions, mapped, pageUrl) ==
    [i \in 1..Len(mapped) |-> AgentAction(mapped[i], pageUrl)] \o actions

\* for (const action of mappedActions) { ...; state.actions.push(action) }
PushActions(actions, mapped, pageUrl) ==
    actions \o [i \in 1..Len(mapped) |-> AgentAction(mapped[i], pageUrl)]

CloseCompletes_Never(completed, toolCall) == completed

\* if (toolCall.toolName === "close") state.completed = true
CloseCompletes(completed, toolCall) == completed \/ toolCall.toolName = "close"

\* HandleToolCall pushing the text after the close handling.
HandleToolCall_CloseFirst(st, event, toolCall) ==
    LET reasoning == IF event.text # <<>>
                     THEN Append(st.collectedReasoning, event.text)
                     ELSE st.collectedReasoning
    IN  AgentState(reasoning,
                   PushActions(st.actions, toolCall.mapped, st.currentPageUrl),
                   IF toolCall.toolName = "close" /\ toolCall.taskComplete
                   THEN CloseMessage(st.collectedReasoning, toolCall.reasoning)
                   ELSE st.finalMessage,
                   CloseCompletes(st.completed, toolCall),
                   st.currentPageUrl)

\* One pass of the loop over event.toolCalls.
HandleToolCall(st, event, toolCall) ==
    LET reasoning == IF event.text # <<>>
                     THEN Append(st.collectedReasoning, event.text)
                     ELSE st.collectedReasoning
    IN  AgentState(reasoning,
                   PushActions(st.actions, toolCall.mapped, st.currentPageUrl),
                   IF toolCall.toolName = "close" /\ toolCall.taskComplete
                   THEN CloseMessage(reasoning, toolCall.reasoning)
                   ELSE st.finalMessage,
                   CloseCompletes(st.completed, toolCall),
                   st.currentPageUrl)

RECURSIVE HandleToolCalls(_, _, _)
HandleToolCalls(st, event, i) ==
    IF i > Len(event.toolCalls) THEN st
    ELSE HandleToolCalls(HandleToolCall(st, event, event.toolCalls[i]), event, i + 1)

\* What a step handler leaves: the state, and the error it threw if any.
Handled(st, error) == [state |-> st, error |-> error]

StepHandler_RefreshFirst(st, event, page) ==
    IF event.toolCalls = <<>> THEN Handled(st, NoError)
    ELSE IF page.raises THEN Handled(st, PageError)
    ELSE Handled(HandleToolCalls([st EXCEPT !.currentPageUrl = page.url], event, 1),
                 NoError)

\* The step handler of createStepHandler; page is what awaitActivePage().url()
\* does after the tool calls.
StepHandler(st, event, page) ==
    IF event.toolCalls = <<>> THEN Handled(st, NoError)
    ELSE LET after == HandleToolCalls(st, event, 1)
         IN  IF page.raises
             THEN Handled(after, PageError)
             ELSE Handled([after EXCEPT !.currentPageUrl = page.url], NoError)

HasClose(event) ==
    \E i \in 1..Len(event.toolCalls) : event.toolCalls[i].toolName = "close"

\* stepCountIs(maxSteps)(result)
StepCountIs(maxSteps, count) == count = maxSteps

HandleStop_CountOnly(last, count, maxSteps) == StepCountIs(maxSteps, count)

HandleStop(last, count, maxSteps) ==
    IF HasClose(last) THEN TRUE ELSE StepCountIs(maxSteps, count)

\* state.finalMessage after the if that fills an empty one from the reasoning
\* or from result.text.
FinalMessage(st, text) ==
    IF st.finalMessage # <<>> THEN st.finalMessage
    ELSE IF Trim(Join(st.collectedReasoning)) # <<>>
         THEN Trim(Join(st.collectedReasoning))
         ELSE text

ConsolidateMessage_NoFallback(st, text) == FinalMessage(st, text)

\* message: state.finalMessage || "Task execution completed"
ConsolidateMessage(st, text) ==
    IF FinalMessage(st, text) # <<>> THEN FinalMessage(st, text)
    ELSE <<"Task execution completed">>

consolidateMetricsAndResult(st, text) ==
    AgentResult(st.completed, ConsolidateMessage(st, text), st.actions, st.completed)

\* The calls of v3.updateMetrics consolidateMetricsAndResult makes for a result
\* with or without usage: the duration is an argument of that one call.
UpdateMetrics(usage) == IF usage THEN 1 ELSE 0

----------------------------------------------------------------------------
(* The step hooks and the runs *)

Hooks(on_step_start, on_step_end) ==
    [on_step_start |-> on_step_start, on_step_end |-> on_step_end]

NoHooks == Hooks(FALSE, FALSE)

\* The handler (variant: "base" or "hooked"; llm: this.llmClient has
\* getLanguageModel), the method called on it (mode: "execute" or "stream")
\* and the options of the call.
Run(variant, mode, maxSteps, hooks, llm) ==
    [variant |-> variant, mode |-> mode, maxSteps |-> maxSteps, hooks |-> hooks,
     llm |-> llm]

NoRun == Run(None, None, 0, NoHooks, FALSE)

\* const maxSteps = options.maxSteps || 20   (|| 10 in the hooked handler)
MaxStepsOf(variant, maxSteps) ==
    IF maxSteps # 0 THEN maxSteps
    ELSE IF variant = "base" THEN BaseDefaultMaxSteps ELSE HookedDefaultMaxSteps

\* An entry of the step log: the model call of step n, its tool executions, a
\* hook invocation, or the recording of the step's actions.
Note(what, step) == [what |-> what, step |-> step]

\* What a hook invocation did: "void" (returned nothing), "stop" (on_step_start
\* returned true), "raise"; "absent" when the hook is not configured.
StartAnswers(hooks) == IF hooks.on_step_start THEN {"void", "stop", "raise"} ELSE {"absent"}
EndAnswers(hooks) == IF hooks.on_step_end THEN {"void", "raise"} ELSE {"absent"}

HookError_Propagates(answer) ==
    IF answer = "raise" THEN Error("Error", <<"hook failed">>) ELSE NoError

\* try { await this.hooks.on_step_...(...) } catch (hookError) { this.logger(...) }:
\* the error a hook invocation lets out of onStepFinish.
HookError(answer) == NoError

\* What onStepFinish leaves: state, error thrown, log of the step, whether
\* on_step_start asked to stop.
StepOutcome(st, error, log, stop) ==
    [state |-> st, error |-> error, log |-> log, stop |-> stop]

\* onStepFinish of the base handler.
BaseStepFinish(st, n, event, page) ==
    LET h == StepHandler(st, event, page)
    IN  StepOutcome(h.state, h.error,
                 IF event.toolCalls # <<>> THEN <<Note("actions", n)>> ELSE <<>>,
                 FALSE)

\* onStepFinish of the hooked handler, from the on_step_end hook on.
HookedStepEnd(st, n, answer) ==
    IF answer = "absent" THEN StepOutcome(st, NoError, <<>>, FALSE)
    ELSE StepOutcome(st, HookError(answer), <<Note("on_step_end", n)>>, FALSE)

\* onStepFinish of the hooked handler, after the on_step_start hook.
HookedStepBody(st, n, event, page, endAnswer) ==
    LET h == BaseStepFinish(st, n, event, page)
        e == HookedStepEnd(h.state, n, endAnswer)
    IN  IF h.error # NoError THEN h
        ELSE StepOutcome(e.state, e.error, h.log \o e.log, FALSE)

\* onStepFinish of the hooked handler; n is currentStepNumber after its increment.
HookedStepFinish(st, n, event, page, startAnswer, endAnswer) ==
    LET body == HookedStepBody(st, n, event, page, endAnswer)
    IN  IF startAnswer = "absent" THEN body
        ELSE IF startAnswer = "stop"
        THEN StepOutcome([st EXCEPT !.completed = TRUE], NoError,
                      <<Note("on_step_start", n)>>, TRUE)
        ELSE IF HookError(startAnswer) # NoError
        THEN StepOutcome(st, HookError(startAnswer), <<Note("on_step_start", n)>>, FALSE)
        ELSE StepOutcome(body.state, body.error,
                      <<Note("on_step_start", n)>> \o body.log, FALSE)

OnStepFinish(r, st, n, event, page, startAnswer, endAnswer) ==
    IF r.variant = "base" THEN BaseStepFinish(st, n, event, page)
    ELSE HookedStepFinish(st, n, event, page, startAnswer, endAnswer)

\* stopWhen: handleStop in the base handler, stepCountIs(maxSteps) in the hooked.
StopWhen(r, last, count) ==
    IF r.variant = "base" THEN HandleStop(last, count, r.maxSteps)
    ELSE StepCountIs(r.maxSteps, count)

\* An invocation of a hook: the stepNumber and, for on_step_end, the
\* actionsPerformed it was passed; stop: on_step_start returned a stop signal.
HookCall(hook, stepNumber, actionsPerformed, stop) ==
    [hook |-> hook, stepNumber |-> stepNumber, actionsPerformed |-> actionsPerformed,
     stop |-> stop]

ActionsPerformed_Total(before, after) == Len(after.actions)

\* actionsPerformed: actions.length - stepStartActionsCount
ActionsPerformed(before, after) == Len(after.actions) - Len(before.actions)

\* The hook invocations of one onStepFinish, from its log; before and after
\* are the states the step started and ended with.
HookCalls(log, stop, before, after) ==
    LET hooked == SelectSeq(log, LAMBDA note : note.what \in {"on_step_start", "on_step_end"})
    IN  [i \in 1..Len(hooked) |->
            IF hooked[i].what = "on_step_start"
            THEN HookCall("on_step_start", hooked[i].step, 0, stop)
            ELSE HookCall("on_step_end", hooked[i].step,
                          ActionsPerformed(before, after), FALSE)]

\* The history of a run: a hook was invoked; every hook invoked raised; the
\* first step at which on_step_start asked to stop; the first step whose tool
\* calls had a close; the error thrown in the loop; the hook invocations.
History(invoked, allRaised, stoppedAt, closedAt, thrown, page, hookCalls) ==
    [invoked |-> invoked, allRaised |-> allRaised, stoppedAt |-> stoppedAt,
     closedAt |-> closedAt, thrown |-> thrown, page |-> page, hookCalls |-> hookCalls]

\* The step handler did not ask the page for its URL.
NoPage == Page(None, FALSE)

NoHistory == History(FALSE, TRUE, 0, 0, NoError, NoPage, <<>>)

\* The history after step n; endReached: on_step_end was reached; page: what
\* the page answered the step handler, NoPage if it was not asked.
Answered(h, n, event, startAnswer, endAnswer, endReached, error, page, calls) ==
    LET answers == (IF startAnswer = "absent" THEN {} ELSE {startAnswer})
                   \cup (IF endAnswer = "absent" \/ ~endReached THEN {} ELSE {endAnswer})
    IN  History(h.invoked \/ answers # {},
                h.allRaised /\ answers \subseteq {"raise"},
                IF h.stoppedAt = 0 /\ startAnswer = "stop" THEN n ELSE h.stoppedAt,
                IF h.closedAt = 0 /\ HasClose(event) THEN n ELSE h.closedAt,
                error, page, h.hookCalls \o calls)

----------------------------------------------------------------------------
(* execute and stream *)

\* How the call ends before the model is invoked, Unsettled if it does not:
\* prepareAgent throws to the caller; the hooked execute resolves the page URL
\* outside its try and checks the model client inside it.
PrepareOutcome(variant, llm, page) ==
    IF variant = "base"
    THEN IF ~llm THEN Raised(MissingLLMConfigurationError)
         ELSE IF page.raises THEN Raised(PageError)
         ELSE Unsettled
    ELSE IF page.raises THEN Raised(PageError)
         ELSE IF ~llm THEN Returned(FailedResult(InitialState(page.url),
                                                 MissingLLMConfigurationError))
         ELSE Unsettled

LoopFailure_Propagates(mode, st, error) ==
    IF mode = "execute" THEN Raised(error) ELSE Rejected(error)

\* How a failure in the loop ends the call: the catch of execute, or onError
\* of stream.
LoopFailure(mode, st, error) ==
    IF mode = "execute" THEN Returned(FailedResult(st, error)) ELSE Rejected(error)

StreamFinish_Reject(st, text) == Rejected(ModelError)

\* onFinish of stream.
StreamFinish(st, text) == Resolved(consolidateMetricsAndResult(st, text))

\* How the end of the loop ends the call.
LoopFinish(mode, st, text) ==
    IF mode = "execute" THEN Returned(consolidateMetricsAndResult(st, text))
    ELSE StreamFinish(st, text)

\* execute/stream up to the call of generateText/streamText.
Prepare(variant, mode, maxSteps, hooks, llm, page) ==
    /\ apc = "idle"
    /\ run' = Run(variant, mode, MaxStepsOf(variant, maxSteps), hooks, llm)
    /\ state' = IF PrepareOutcome(variant, llm, page).kind = "raised" THEN NoState
                ELSE InitialState(page.url)
    /\ plain' = IF PrepareOutcome(variant, llm, page).kind = "raised" THEN NoState
                ELSE InitialState(page.url)
    /\ IF PrepareOutcome(variant, llm, page) # Unsettled
       THEN /\ agentResult' = PrepareOutcome(variant, llm, page)
            /\ apc' = "failed"
       ELSE /\ agentResult' = IF mode = "stream" THEN Pending ELSE Unsettled
            /\ apc' = "stepping"
    /\ stepCount' = 0
    /\ currentStepNumber' = 0
    /\ lastStep' = NoStep
    /\ stepLog' = <<>>
    /\ history' = NoHistory
    /\ metricsUpdates' = 0
    /\ UNCHANGED <<clientVars, requests, call, pc, response, streamVars, outcome,
                   initArgs, metricVars, cuaVars, suspended, interleaved>>

\* One step of generateText/streamText: the model is called, the tools of its
\* tool calls are executed, onStepFinish runs, stopWhen is evaluated.
ModelStep(event, page, startAnswer, endAnswer) ==
    /\ apc = "stepping"
    /\ LET n == stepCount + 1
           f == OnStepFinish(run, state, n, event, page, startAnswer, endAnswer)
       IN  /\ state' = f.state
           /\ plain' = StepHandler(plain, event, page).state
           /\ stepLog' = <<Note("model", n)>>
                         \o (IF event.toolCalls # <<>> THEN <<Note("tools", n)>> ELSE <<>>)
                         \o f.log
           /\ history' = Answered(history, n, event, startAnswer, endAnswer,
                                  ~f.stop /\ StepHandler(state, event, page).error = NoError,
                                  f.error,
                                  IF ~f.stop /\ event.toolCalls # <<>> THEN page
                                  ELSE NoPage,
                                  HookCalls(f.log, f.stop, state, f.state))
           /\ stepCount' = n
           /\ currentStepNumber' = IF run.variant = "hooked" THEN n ELSE currentStepNumber
           /\ lastStep' = event
           /\ IF f.error # NoError
              THEN /\ agentResult' = LoopFailure(run.mode, f.state, f.error)
                   /\ apc' = "failed"
              ELSE /\ apc' = IF StopWhen(run, event, n) THEN "finishing" ELSE "stepping"
                   /\ UNCHANGED agentResult
    /\ UNCHANGED <<clientVars, requests, call, pc, response, streamVars, outcome,
                   initArgs, metricVars, cuaVars, run, metricsUpdates, suspended,
                   interleaved>>

\* generateText/streamText fails instead of delivering the next step: the
\* model client or a tool throws.
ModelFails(error) ==
    /\ apc = "stepping"
    /\ stepLog' = <<Note("model", stepCount + 1)>>
    /\ agentResult' = LoopFailure(run.mode, state, error)
    /\ history' = [history EXCEPT !.thrown = error]
    /\ apc' = "failed"
    /\ UNCHANGED <<clientVars, requests, call, pc, response, streamVars, outcome,
                   initArgs, metricVars, cuaVars, run, state, plain, stepCount,
                   currentStepNumber, lastStep, metricsUpdates, suspended,
                   interleaved>>

\* generateText returns / streamText finishes: the result, which carries the
\* usage the model reported or none, is consolidated.
Finish ==
    /\ apc = "finishing"
    /\ \E usage \in BOOLEAN : metricsUpdates' = metricsUpdates + UpdateMetrics(usage)
    /\ agentResult' = LoopFinish(run.mode, state, lastStep.text)
    /\ state' = [state EXCEPT !.finalMessage = FinalMessage(state, lastStep.text)]
    /\ apc' = "done"
    /\ UNCHANGED <<clientVars, requests, call, pc, response, streamVars, outcome,
                   initArgs, metricVars, cuaVars, run, plain, stepCount, currentStepNumber,
                   lastStep, stepLog, history, suspended, interleaved>>

\* The locals of one call of execute or stream, with what the call has
\* settled so far.
CallFrame(r, a, st, n, c, l, log, h, p, res, m) ==
    [run |-> r, apc |-> a, state |-> st, stepCount |-> n, currentStepNumber |-> c,
     lastStep |-> l, stepLog |-> log, history |-> h, plain |-> p,
     agentResult |-> res, metricsUpdates |-> m]

NoCall == CallFrame(NoRun, "idle", NoState, 0, 0, NoStep, <<>>, NoHistory, NoState,
                    Unsettled, 0)

InProgress(a) == a \in {"stepping", "finishing"}

ResumedState_Shared(own, current) == current

\* The state a call finds when it resumes: the object it created itself, which
\* its step handler closes over, whatever the other call's state is.
ResumedState(own, current) == own

\* The call under way waits at an await and the other call on the same handler
\* goes on, or begins.
Switch ==
    /\ apc # "idle"
    /\ suspended' = CallFrame(run, apc, state, stepCount, currentStepNumber, lastStep,
                              stepLog, history, plain, agentResult, metricsUpdates)
    /\ run' = suspended.run
    /\ apc' = suspended.apc
    /\ state' = ResumedState(suspended.state, state)
    /\ stepCount' = suspended.stepCount
    /\ currentStepNumber' = suspended.currentStepNumber
    /\ lastStep' = suspended.lastStep
    /\ stepLog' = suspended.stepLog
    /\ history' = suspended.history
    /\ plain' = suspended.plain
    /\ agentResult' = suspended.agentResult
    /\ metricsUpdates' = suspended.metricsUpdates
    /\ interleaved' = (interleaved \/ (InProgress(apc) /\ InProgress(suspended.apc)))
    /\ UNCHANGED <<clientVars, requests, call, pc, response, streamVars, outcome,
                   initArgs, metricVars, cuaVars>>

\* No agent run has been started.
NoAgentRun ==
    /\ run = NoRun
    /\ apc = "idle"
    /\ state = NoState
    /\ stepCount = 0
    /\ currentStepNumber = 0
    /\ lastStep = NoStep
    /\ stepLog = <<>>
    /\ history = NoHistory
    /\ plain = NoState
    /\ agentResult = Unsettled
    /\ metricsUpdates = 0
    /\ suspended = NoCall
    /\ interleaved = FALSE

----------------------------------------------------------------------------
(* V3CuaAgentHandler: the action handler and executeAction *)

\* Coordinates are counted in halves, so that 3 is 1.5: Math.round.
Round(v) == (v + 1) \div 2

PreviewLimit == 30
PreviewKept == 27

\* An optional field is <<>> when absent and <<v>> when given: a ?? d.
Default(optional, d) == IF optional = <<>> THEN d ELSE optional[1]

Point(x, y) == [x |-> x, y |-> y]

\* An action of the given type as the agent client hands it over, its fields
\* absent.
CuaAction(type) ==
    [type |-> type, x |-> 0, y |-> 0, button |-> <<>>, clickCount |-> <<>>,
     text |-> <<>>, keys |-> <<>>, path |-> <<>>, timeMs |-> <<>>, url |-> None,
     reasoning |-> <<>>, pageUrl |-> None]

\* What the page and v3 do during one call of the action handler: the page's
\* url, whether a replay is recorded, the values the page returns for the
\* xpaths it is asked for, and which of the steps raise.
Env(url, recording, xpath, toXpath, raises, highlight, cursorFails, shotFails) ==
    [url |-> url, recording |-> recording, xpath |-> xpath, toXpath |-> toXpath,
     raises |-> raises, highlightCursor |-> highlight,
     cursorFails |-> cursorFails, screenshotFails |-> shotFails]

NoEnv == Env(None, FALSE, [isString |-> FALSE, text |-> <<>>],
             [isString |-> FALSE, text |-> <<>>], FALSE, FALSE, FALSE, FALSE)

\* A value the page returns where an xpath is expected.
Value(isString, text) == [isString |-> isString, text |-> text]

XPathPrefix == "xpath="

\* null
NoLocator == <<>>

ensureXPath_Untrimmed(value) ==
    IF ~value.isString \/ Trim(value.text) = <<>> THEN NoLocator
    ELSE IF Head(value.text) = XPathPrefix THEN value.text
    ELSE <<XPathPrefix>> \o value.text

ensureXPath(value) ==
    IF ~value.isString THEN NoLocator
    ELSE IF Trim(value.text) = <<>> THEN NoLocator
    ELSE IF Head(Trim(value.text)) = XPathPrefix THEN Trim(value.text)
    ELSE <<XPathPrefix>> \o Trim(value.text)

\* A description: its words, and the numbers of "(x, y)" after them.
Description(words, numbers) == [words |-> words, numbers |-> numbers]

describePointerAction_Raw(kind, x, y) == Description(<<kind, "at">>, <<x, y>>)

describePointerAction(kind, x, y) ==
    Description(<<kind, "at">>, <<Round(x), Round(y)>>)

describeTypeAction_Whole(text) == Description(<<"type">> \o text, <<>>)

describeTypeAction(text) ==
    Description(<<"type">> \o (IF Len(text) > PreviewLimit
                               THEN SubSeq(text, 1, PreviewKept) \o <<"...">>
                               ELSE text), <<>>)

describeDragAction == Description(<<"drag and drop">>, <<>>)

StagehandAction(selector, description, method, arguments) ==
    [selector |-> selector, description |-> description, method |-> method,
     arguments |-> arguments]

ReplayStep(type, instruction, actions, actionDescription, message, numbers, url) ==
    [type |-> type, instruction |-> instruction, actions |-> actions,
     actionDescription |-> actionDescription, message |-> message,
     numbers |-> numbers, url |-> url]

NoDescription == Description(<<>>, <<>>)

\* The agent actions here carry no `action` text, only reasoning.
buildInstructionFallback(agentAction, fallback) ==
    IF Trim(agentAction.reasoning) # <<>>
    THEN Description(Trim(agentAction.reasoning), <<>>)
    ELSE fallback

\* The replay steps recordCuaActStep hands to v3.recordAgentReplayStep.
recordCuaActStep(agentAction, stagehandActions, fallback) ==
    IF stagehandActions = <<>> THEN <<>>
    ELSE <<ReplayStep("act", buildInstructionFallback(agentAction, fallback),
                      stagehandActions, stagehandActions[1].description,
                      Trim(agentAction.reasoning), <<>>, None)>>

\* One call of a primitive of the page.
PageCall(name, numbers, button, clickCount, returnXpath, text) ==
    [name |-> name, numbers |-> numbers, button |-> button,
     clickCount |-> clickCount, returnXpath |-> returnXpath, text |-> text]

ActionExecutionResult(success, error) == [success |-> success, error |-> error]

Success == ActionExecutionResult(TRUE, <<>>)

NoResult == ActionExecutionResult(FALSE, <<>>)

\* What a call of executeAction did: what it returned or threw, the page
\* primitives it invoked and the replay steps it recorded.
Executed(result, calls, steps, error) ==
    [result |-> result, pageCalls |-> calls, replaySteps |-> steps, error |-> error]

\* A primitive of the page is invoked and may raise; if it does not, the
\* replay steps are recorded and the action succeeds.
Invoke(env, calls, steps) ==
    IF env.raises THEN Executed(NoResult, <<calls[1]>>, <<>>, PageError)
    ELSE Executed(Success, calls, steps, NoError)

\* The click, double click and triple click cases; button is None where the
\* call passes none.
PointerClick(action, env, kind, method, button, clickCount) ==
    Invoke(env,
           <<PageCall("click", <<action.x, action.y>>, button, clickCount,
                      env.recording, <<>>)>>,
           IF env.recording /\ ensureXPath(env.xpath) # NoLocator
           THEN recordCuaActStep(action,
                    <<StagehandAction(ensureXPath(env.xpath),
                                      describePointerAction(kind, action.x, action.y),
                                      method, <<>>)>>,
                    describePointerAction(kind, action.x, action.y))
           ELSE <<>>)

TypeText(action, env) ==
    Invoke(env,
           <<PageCall("type", <<>>, None, 0, FALSE, action.text)>>,
           IF env.recording /\ ensureXPath(env.xpath) # NoLocator
           THEN recordCuaActStep(action,
                    <<StagehandAction(ensureXPath(env.xpath),
                                      describeTypeAction(action.text), "type",
                                      action.text)>>,
                    describeTypeAction(action.text))
           ELSE <<>>)

\* mapKeyToPlaywright
MappedKey(key) == <<"playwright", key>>

Keypress(action, env) ==
    IF action.keys = <<>> THEN Executed(Success, <<>>, <<>>, NoError)
    ELSE Invoke(env,
           [i \in 1..Len(action.keys) |->
               PageCall("keyPress", <<>>, None, 0, FALSE, MappedKey(action.keys[i]))],
           IF env.recording
           THEN recordCuaActStep(action,
                    [i \in 1..Len(action.keys) |->
                        StagehandAction(<<XPathPrefix, "/html">>,
                            Description(<<"press">> \o MappedKey(action.keys[i]), <<>>),
                            "press", MappedKey(action.keys[i]))],
                    Description(<<"press">> \o MappedKey(action.keys[1]), <<>>))
           ELSE <<>>)

\* The scroll case: the step is recorded without looking at `recording`.
Scroll(action, env) ==
    Invoke(env,
           <<PageCall("scroll", <<action.x, action.y, 0, 0>>, None, 0, FALSE, <<>>)>>,
           <<ReplayStep("scroll", NoDescription, <<>>, NoDescription, <<>>,
                        <<0, 0, Round(action.x), Round(action.y)>>, None)>>)

Min(a, b) == IF a < b THEN a ELSE b
Max(a, b) == IF a > b THEN a ELSE b

DragSteps_Unclamped(path) == Len(path)

DragSteps(path) == Min(20, Max(5, Len(path)))

Drag(action, env) ==
    IF Len(action.path) < 2 THEN Executed(Success, <<>>, <<>>, NoError)
    ELSE Invoke(env,
           <<PageCall("dragAndDrop",
                      <<action.path[1].x, action.path[1].y,
                        action.path[Len(action.path)].x,
                        action.path[Len(action.path)].y,
                        DragSteps(action.path), 10>>,
                      None, 0, env.recording, <<>>)>>,
           IF /\ env.recording
              /\ ensureXPath(env.xpath) # NoLocator
              /\ ensureXPath(env.toXpath) # NoLocator
           THEN recordCuaActStep(action,
                    <<StagehandAction(ensureXPath(env.xpath), describeDragAction,
                                      "dragAndDrop", ensureXPath(env.toXpath))>>,
                    describeDragAction)
           ELSE <<>>)

Wait(action, env) ==
    Executed(Success, <<>>,
             IF Default(action.timeMs, 1000) > 0 /\ env.recording
             THEN <<ReplayStep("wait", NoDescription, <<>>, NoDescription, <<>>,
                               <<Default(action.timeMs, 1000)>>, None)>>
             ELSE <<>>,
             NoError)

\* The goto, back and forward cases.
Navigate(action, env, primitive, url) ==
    Invoke(env,
           <<PageCall(primitive, <<>>, None, 0, FALSE,
                      IF url = None THEN <<>> ELSE <<url>>)>>,
           IF env.recording
           THEN <<ReplayStep(action.type, NoDescription, <<>>, NoDescription, <<>>,
                             <<>>, url)>>
           ELSE <<>>)

UnknownAction(type) == ActionExecutionResult(FALSE, <<"Unknown action", type>>)

executeAction(action, env) ==
    CASE action.type = "click" ->
             PointerClick(action, env, "click", "click",
                          Default(action.button, "left"), Default(action.clickCount, 1))
      [] action.type \in {"double_click", "doubleClick"} ->
             PointerClick(action, env, "double click", "doubleClick", "left", 2)
      [] action.type = "tripleClick" ->
             PointerClick(action, env, "triple click", "tripleClick",
                          IF env.recording THEN "left" ELSE None, 3)
      [] action.type = "type" -> TypeText(action, env)
      [] action.type = "keypress" -> Keypress(action, env)
      [] action.type = "scroll" -> Scroll(action, env)
      [] action.type = "drag" -> Drag(action, env)
      [] action.type = "wait" -> Wait(action, env)
      [] action.type = "goto" -> Navigate(action, env, "goto", action.url)
      [] action.type = "back" -> Navigate(action, env, "goBack", None)
      [] action.type = "forward" -> Navigate(action, env, "goForward", None)
      [] action.type \in {"move", "screenshot", "open_web_browser", "custom_tool"} ->
             Executed(Success, <<>>, <<>>, NoError)
      [] OTHER -> Executed(UnknownAction(action.type), <<>>, <<>>, NoError)

\* How a call of the action handler ended: what executeAction returned, the
\* error the handler threw, the sub-steps it went through, what the screenshot
\* capture gave it and what was logged.
HandlerOutcome(kind, result, error, steps, screenshot, logged) ==
    [kind |-> kind, result |-> result, error |-> error, steps |-> steps,
     screenshot |-> screenshot, logged |-> logged]

NotHandled == HandlerOutcome("none", NoResult, NoError, <<>>, None, <<>>)

\* What a best-effort sub-step gives its caller, and what it logs.
Attempt(value, error, logged) == [value |-> value, error |-> error, logged |-> logged]

\* injectCursor: a failing overlay is swallowed.
injectCursor(env) == Attempt(None, NoError, <<>>)

captureAndSendScreenshot_Rethrows(env) ==
    IF env.screenshotFails THEN Attempt("raised", PageError, <<>>)
    ELSE Attempt("screenshot", NoError, <<>>)

\* captureAndSendScreenshot: a failing capture is logged and gives null.
captureAndSendScreenshot(env) ==
    IF env.screenshotFails
    THEN Attempt("null", NoError, <<<<"Error capturing screenshot">>>>)
    ELSE Attempt("screenshot", NoError, <<>>)

\* The action handler given to the agent client: its own try/catch blocks
\* around the two best-effort sub-steps ignore what they throw.
HandleAction(action, env) ==
    LET e == executeAction(action, env)
        cursor == IF env.highlightCursor THEN <<"injectCursor">> ELSE <<>>
        shot == captureAndSendScreenshot(env)
    IN  IF e.error # NoError
        THEN HandlerOutcome("raised", e.result, e.error,
                            cursor \o <<"executeAction">>, None,
                            <<<<"Error executing action", action.type>>>>)
        ELSE HandlerOutcome("completed", e.result, NoError,
                            cursor \o <<"executeAction", "captureAndSendScreenshot">>,
                            shot.value,
                            (IF e.result.success THEN <<>>
                             ELSE <<<<"Unknown action type:", action.type>>>>)
                            \o shot.logged
                            \o (IF shot.error # NoError
                                THEN <<<<"Warning: Failed to take screenshot after action">>>>
                                ELSE <<>>))

\* The agent client calls the action handler with one action.
ActionHandler(action, env) ==
    /\ handled = NotHandled
    /\ cuaAction' = [action EXCEPT !.pageUrl = env.url]
    /\ cuaEnv' = env
    /\ pageCalls' = executeAction(action, env).pageCalls
    /\ replaySteps' = executeAction(action, env).replaySteps
    /\ handled' = HandleAction(action, env)
    /\ UNCHANGED <<clientVars, requests, call, pc, response, streamVars, outcome,
                   initArgs, metricVars, agentVars>>

\* The action handler has not been called.
NoActionHandled ==
    /\ cuaAction = CuaAction(None)
    /\ cuaEnv = NoEnv
    /\ pageCalls = <<>>
    /\ replaySteps = <<>>
    /\ handled = NotHandled

----------------------------------------------------------------------------
(* The client from its construction on *)

InitialCall ==
    /\ requests = <<>>
    /\ call = None
    /\ pc = "idle"
    /\ response = NoResponse
    /\ pos = 0
    /\ eof = FALSE
    /\ buffer = <<>>
    /\ logs = <<>>
    /\ processed = <<>>
    /\ outcome = NoOutcome
    /\ initArgs = NoInit
    /\ metrics = ZeroMetrics
    /\ lastAction = NoAction
    /\ unrecognised = [c \in Counters |-> 0]
    /\ pages = 0
    /\ folded = 0
    /\ NoAgentRun
    /\ NoActionHandled

\* The state the constructor leaves.
InitClient ==
    /\ sessionId = Unset
    /\ modelApiKey = Unset
    /\ InitialCall

InitArgSets ==
    {InitArgs(k, r, i) : k \in {None, "k1"}, r \in {None, "us-west-2", "eu-central-1"},
                         i \in {None, "c1"}}

StartResponses ==
    {StartResponse(401, "b1", FALSE, "", FALSE, "")}
    \cup {StartResponse(500, t, FALSE, "", FALSE, "") : t \in {"b1", "b2"}}
    \cup {StartResponse(200, "", FALSE, "", FALSE, m) : m \in {"m1", "m2"}}
    \cup {StartResponse(200, "", TRUE, i, a, "") : i \in {"s1", "c1"}, a \in BOOLEAN}

ClientResponses ==
    {Response(500, "b1", FALSE, <<>>), Response(200, "", FALSE, <<>>),
     Response(200, "", TRUE, <<"L1", NL, NL, "F1", NL, NL>>)}

EndResponses == {Response(200, "", TRUE, <<>>), Response(500, "b1", TRUE, <<>>)}

Methods == {"act", "ACT", "Extract", "observe", "Agent", "agentExecute", None}

UsageRecords == {NoUsage, Usage(3, Missing, Missing, Missing, Missing),
                 Usage(1, 2, 3, 4, 5)}

ReplayActions ==
    {ReplayAction(m, FALSE, NoUsage) : m \in Methods}
    \cup {ReplayAction(m, TRUE, u) : m \in Methods, u \in UsageRecords}

ClientReplayActions == {ReplayAction("act", TRUE, Usage(1, 2, 3, 4, 5)),
                        ReplayAction("agentExecute", TRUE, Usage(1, 2, 3, 4, 5))}

ReplayResponses ==
    {ReplayResponse(200, "", TRUE, None), ReplayResponse(200, "", FALSE, None),
     ReplayResponse(200, "", FALSE, "e1"), ReplayResponse(500, "b1", FALSE, None)}

ReadChunk == \E k \in 1..MaxChunk : Read(k)

CallInit == \E args \in InitArgSets, resp \in StartResponses : Init(args, resp)
CallExecute == \E op \in Operations, resp \in ClientResponses : Execute(op, resp)
CallEnd == \E resp \in EndResponses : End(resp)
CallGetReplayMetrics == \E resp \in ReplayResponses : GetReplayMetrics(resp)
FoldClient == \E a \in ClientReplayActions : FoldAction(a)

NextClient ==
    \/ CallInit
    \/ CallExecute
    \/ ReadChunk
    \/ CallEnd
    \/ CallGetReplayMetrics
    \/ NextPage
    \/ FoldClient
    \/ ReturnMetrics

SpecClient == InitClient /\ [][NextClient]_vars

----------------------------------------------------------------------------
(* The metrics of one replay response *)

InitMetrics ==
    /\ sessionId = "s1"
    /\ modelApiKey = "k1"
    /\ InitialCall

FetchMetrics == pc = "idle" /\ CallGetReplayMetrics
Fold == \E a \in ReplayActions : FoldAction(a)

NextMetrics == FetchMetrics \/ NextPage \/ Fold \/ ReturnMetrics

SpecMetrics == InitMetrics /\ [][NextMetrics]_vars

----------------------------------------------------------------------------
(* One dispatch *)

\* A client whose init has succeeded, about to dispatch one operation.
InitDispatch ==
    /\ sessionId = "s1"
    /\ modelApiKey = "k1"
    /\ InitialCall

DispatchOps == {"act"}

Dispatch ==
    /\ pc = "idle"
    /\ \E op \in DispatchOps, resp \in DispatchResponses : Execute(op, resp)

NextDispatch == Dispatch \/ ReadChunk

SpecDispatch == InitDispatch /\ [][NextDispatch]_vars

----------------------------------------------------------------------------
(* Agent runs: one call of execute or stream on a handler *)

Urls == {"u1", "u2"}
PageOutcomes == {Page(u, FALSE) : u \in Urls} \cup {Page(None, TRUE)}
Texts == {<<>>, <<"t">>}

Act == ToolCall("act", FALSE, <<>>, <<"act">>)
Screenshot == ToolCall("screenshot", FALSE, <<>>, <<>>)
CloseDone == ToolCall("close", TRUE, <<"r">>, <<"close">>)
CloseBare == ToolCall("close", TRUE, <<>>, <<"close">>)
CloseGivenUp == ToolCall("close", FALSE, <<>>, <<"close">>)

ToolCallLists ==
    {<<>>, <<Act>>, <<Act, Act>>, <<Screenshot>>, <<CloseDone>>, <<CloseBare>>,
     <<CloseGivenUp>>, <<Act, CloseDone>>, <<CloseDone, Act>>}

StepEvents ==
    {StepEvent(t, c) : t \in Texts, c \in ToolCallLists} \cup {StepEvent(<<"s">>, <<Act>>)}

InitAgent == InitClient

\* The base handler: execute and stream.
Start ==
    /\ apc = "idle"
    /\ \E mode \in {"execute", "stream"}, n \in 1..MaxSteps, llm \in BOOLEAN,
          page \in PageOutcomes :
           Prepare("base", mode, n, NoHooks, llm, page)

NextStep ==
    /\ apc = "stepping"
    /\ \E event \in StepEvents, page \in PageOutcomes :
           ModelStep(event, page, "absent", "absent")

ModelRaises ==
    /\ apc = "stepping"
    /\ \E error \in {ModelError, ToolError} : ModelFails(error)

NextAgent == Start \/ NextStep \/ ModelRaises \/ Finish

SpecAgent == InitAgent /\ [][NextAgent]_vars

\* The hooked handler: execute, with any of the two hooks configured.
HookedToolCallLists == {<<>>, <<Act>>, <<Act, Act>>, <<CloseDone>>}

HookedStepEvents == {StepEvent(t, c) : t \in Texts, c \in HookedToolCallLists}

HookedPageOutcomes == {Page("u1", FALSE), Page(None, TRUE)}

StartHooked ==
    /\ apc = "idle"
    /\ \E s \in BOOLEAN, e \in BOOLEAN, n \in 1..MaxSteps, llm \in BOOLEAN,
          page \in HookedPageOutcomes :
           Prepare("hooked", "execute", n, Hooks(s, e), llm, page)

NextHookedStep ==
    /\ apc = "stepping"
    /\ \E event \in HookedStepEvents, page \in HookedPageOutcomes,
          s \in StartAnswers(run.hooks), e \in EndAnswers(run.hooks) :
           ModelStep(event, page, s, e)

NextHooks == StartHooked \/ NextHookedStep \/ ModelRaises \/ Finish

SpecHooks == InitAgent /\ [][NextHooks]_vars

Goto == ToolCall("goto", FALSE, <<>>, <<"goto">>)

RunStepEvents ==
    {StepEvent(<<"t">>, <<Act>>), StepEvent(<<>>, <<Goto>>), StepEvent(<<"t">>, <<>>),
     StepEvent(<<>>, <<CloseDone>>)}

InitRuns == InitClient

StartRun ==
    /\ apc = "idle"
    /\ \E mode \in {"execute", "stream"}, n \in 1..(MaxSteps - 1) :
           Prepare("base", mode, n, NoHooks, TRUE, Page("u1", FALSE))

NextRunStep ==
    /\ apc = "stepping"
    /\ \E event \in RunStepEvents : ModelStep(event, Page("u2", FALSE), "absent", "absent")

RunRaises ==
    /\ apc = "stepping"
    /\ ModelFails(ModelError)

NextRuns == StartRun \/ NextRunStep \/ RunRaises \/ Finish \/ Switch

SpecRuns == InitRuns /\ [][NextRuns]_vars

Coords == {3, 4, 5}

XpathValues ==
    {Value(FALSE, <<>>), Value(TRUE, <<>>), Value(TRUE, <<Blank>>),
     Value(TRUE, <<"/a">>), Value(TRUE, <<XPathPrefix, "/a">>),
     Value(TRUE, <<Blank, "/a", Blank>>), Value(TRUE, <<XPathPrefix, "/a", Blank>>)}

\* Whether the cursor is highlighted, its injection fails, the screenshot fails.
BestEffortOutcomes ==
    {<<FALSE, FALSE, FALSE>>, <<TRUE, FALSE, FALSE>>, <<TRUE, TRUE, FALSE>>,
     <<TRUE, FALSE, TRUE>>}

Envs ==
    {Env("u1", r, v, w, f, b[1], b[2], b[3]) :
        r \in BOOLEAN, v \in XpathValues,
        w \in {Value(TRUE, <<>>), Value(TRUE, <<"/b">>)}, f \in BOOLEAN,
        b \in BestEffortOutcomes}

PointerActions ==
    {[CuaAction("click") EXCEPT !.x = x, !.y = y, !.button = b, !.clickCount = n,
                                !.reasoning = t] :
        x \in Coords, y \in {3}, b \in {<<>>, <<"right">>},
        n \in {<<>>, <<2>>}, t \in {<<>>, <<"r">>}}
    \cup {[CuaAction(k) EXCEPT !.x = x, !.y = y] :
             k \in {"double_click", "doubleClick", "triple_click", "tripleClick"},
             x \in Coords, y \in {3}}

\* The longest path of a drag.
MaxPath == 21

Paths == {[i \in 1..n |-> Point(i, i + 1)] : n \in {0, 1, 2, 4, 5, 6, 19, 20, 21, MaxPath}}

\* The longest text typed.
MaxText == 31

\* A text of n characters.
TextOf(n) == [i \in 1..n |-> <<"a", "b", "c">>[(i % 3) + 1]]

TypedTexts == {TextOf(n) : n \in {0, 2, 26, 27, 28, 30, 31, MaxText}}

CuaActions ==
    PointerActions
    \cup {[CuaAction("type") EXCEPT !.text = t] : t \in TypedTexts}
    \cup {[CuaAction("keypress") EXCEPT !.keys = k] :
             k \in {<<>>, <<"Enter">>, <<"Control", "a">>}}
    \cup {[CuaAction("scroll") EXCEPT !.x = x, !.y = 2] : x \in Coords}
    \cup {[CuaAction("drag") EXCEPT !.path = p] : p \in Paths}
    \cup {[CuaAction("wait") EXCEPT !.timeMs = t] : t \in {<<>>, <<0>>, <<5>>}}
    \cup {[CuaAction("goto") EXCEPT !.url = "u2"]}
    \cup {CuaAction(k) : k \in {"back", "forward", "move", "screenshot",
                                 "open_web_browser", "custom_tool", "hover"}}

InitExecutor == InitClient

Handle == \E action \in CuaActions, env \in Envs : ActionHandler(action, env)

NextExecutor == Handle

SpecExecutor == InitExecutor /\ [][NextExecutor]_vars


----------------------------------------------------------------------------
(* Properties of dispatch.  They speak of the response body as the server   *)
(* sent it: its records are the pieces between record separators, the last  *)
(* one being the record the stream ended in without a separator.            *)

Streamed == call \in Operations /\ Ok(response) /\ response.hasBody

Records == Split(response.body)

\* The text after the data prefix is JSON of one of the given kinds.
IsRecordOf(line, toks) ==
    /\ Len(line) > 0
    /\ Head(line) \in toks
    /\ \A i \in 2..Len(line) : line[i] = NL

IsFinished(line) == IsRecordOf(line, FinishedTokens)
IsServerError(line) == IsRecordOf(line, {"E1"})
IsMalformed(line) ==
    Len(line) > 0 /\ Head(line) \in DataTokens /\ ~IsRecordOf(line, JsonTokens)

ResultOf(line) == IF Head(line) = "F1" THEN "r1" ELSE "r2"

\* A record the decode loop passes over: no data prefix, or a log event.
Benign(line) ==
    \/ Len(line) = 0
    \/ Head(line) \notin DataTokens
    \/ IsRecordOf(line, LogTokens)

\* Record i is the first record that is not passed over.
FirstDeciding(i) ==
    /\ i \in 1..Len(Records)
    /\ \A j \in 1..(i - 1) : Benign(Records[j])

\* C1 (as stated): whenever the final record of a streamed response is a finished
\* system event, dispatch returns exactly that event's result.
C1_FinalFinishedReturned ==
    (/\ pc = "done"
     /\ Streamed
     /\ \E i \in 1..Len(Records) :
            /\ IsFinished(Records[i])
            /\ \A j \in (i + 1)..Len(Records) : Records[j] = <<>>)
    => \E i \in 1..Len(Records) :
            /\ IsFinished(Records[i])
            /\ \A j \in (i + 1)..Len(Records) : Records[j] = <<>>
            /\ outcome = Return(ResultOf(Records[i]))

\* C1 (amended): when the first record of a streamed response that is neither a log
\* event nor a record without the data prefix is a finished system event, dispatch
\* returns exactly that event's result; and once a finished record has been
\* processed the call is over: it is the last record processed and no read is
\* issued after the one that delivered it.
C1_FirstFinishedReturned ==
    /\ (pc = "done" /\ Streamed) =>
        \A i \in 1..Len(Records) :
            (FirstDeciding(i) /\ IsFinished(Records[i]))
            => /\ outcome = Return(ResultOf(Records[i]))
               /\ Len(processed) = i
    /\ \A i \in 1..Len(processed) :
            IsFinished(processed[i].line)
            => /\ i = Len(processed)
               /\ pc = "done"
               /\ outcome = Return(ResultOf(processed[i].line))
               /\ pos = processed[i].at
               /\ eof = processed[i].final

\* A finished record was returned while part of the body was still unread.
C1_Witness ==
    /\ pc = "done"
    /\ Streamed
    /\ Len(processed) = 1
    /\ IsFinished(processed[1].line)
    /\ ~processed[1].final
    /\ outcome = Return("r2")
    /\ pos < Len(response.body)

\* C2: when the reader has reported done and no finished system event was
\* observed, dispatch fails with StagehandServerError, "Stream ended without
\* completion signal", whatever else the stream held.
C2_EndWithoutFinished ==
    (/\ Streamed
     /\ eof
     /\ \A i \in 1..Len(processed) : ~IsFinished(processed[i].line))
    => /\ pc = "done"
       /\ outcome.kind = "StagehandServerError"
       /\ outcome.text = "Stream ended without completion signal"

\* The stream ended after a log record, in an unterminated record that is no JSON.
C2_Witness ==
    /\ Streamed
    /\ eof
    /\ outcome = StagehandServerError
    /\ Len(processed) = 2
    /\ IsRecordOf(processed[1].line, LogTokens)
    /\ IsMalformed(processed[2].line)

\* C3 (as stated): every record that begins with the data prefix and is not JSON
\* after it, terminated or last, makes dispatch fail with
\* StagehandResponseParseError carrying the decode failure.
C3_EveryMalformedRaises ==
    (pc = "done" /\ Streamed)
    => \A i \in 1..Len(Records) :
            IsMalformed(Records[i])
            => /\ outcome.kind = "StagehandResponseParseError"
               /\ outcome.text = ParseJSON(Records[i]).msg

\* C3 (amended): a record that begins with the data prefix, is not JSON after it,
\* is terminated by the record separator and is preceded only by log events and
\* records without the prefix makes dispatch fail with StagehandResponseParseError
\* whose message carries the decode failure; no later record is processed.
C3_TerminatedMalformedRaises ==
    (pc = "done" /\ Streamed)
    => \A i \in 1..(Len(Records) - 1) :
            (FirstDeciding(i) /\ IsMalformed(Records[i]))
            => /\ outcome.kind = "StagehandResponseParseError"
               /\ outcome.text = ParseJSON(Records[i]).msg
               /\ outcome.text # ""
               /\ Len(processed) = i
               /\ ~eof

\* A JSON event followed by more text in the same record was rejected.
C3_Witness ==
    /\ pc = "done"
    /\ Streamed
    /\ Len(processed) = 2
    /\ IsMalformed(processed[2].line)
    /\ Head(processed[2].line) \in JsonTokens
    /\ outcome = StagehandResponseParseError("Unexpected non-whitespace character after JSON")

\* C4: a system event with status error that is processed before any finished
\* event fails the call with a plain Error carrying the server's message, not
\* with StagehandResponseParseError or StagehandServerError, and no later record
\* is processed.
C4_ServerErrorPlain ==
    /\ (pc = "done" /\ Streamed) =>
        \A i \in 1..(Len(Records) - 1) :
            (FirstDeciding(i) /\ IsServerError(Records[i]))
            => /\ outcome = PlainError("boom")
               /\ Len(processed) = i
    /\ \A i \in 1..Len(processed) :
            (IsServerError(processed[i].line) /\ ~processed[i].final)
            => /\ i = Len(processed)
               /\ pc = "done"
               /\ outcome.kind = "Error"
               /\ outcome.text = "boom"
               /\ pos = processed[i].at

\* An error event ended the call although a finished event follows it.
C4_Witness ==
    /\ pc = "done"
    /\ Streamed
    /\ outcome = PlainError("boom")
    /\ Len(Records) >= 3
    /\ IsServerError(Records[1])
    /\ IsFinished(Records[2])
    /\ Len(processed) = 1

\* C8: a status that is not ok fails with StagehandHttpError carrying the status
\* and the raw body, an ok response without a body stream fails with
\* StagehandResponseBodyError, and in both cases nothing is read or decoded.
C8_NoStreamNoRead ==
    (call \in Operations)
    => /\ ~Ok(response) =>
            /\ pc = "done"
            /\ outcome = HttpError(response.status, response.text)
            /\ pos = 0 /\ ~eof /\ processed = <<>> /\ logs = <<>>
       /\ (Ok(response) /\ ~response.hasBody) =>
            /\ pc = "done"
            /\ outcome = StagehandResponseBodyError
            /\ pos = 0 /\ ~eof /\ processed = <<>> /\ logs = <<>>

\* A 500 response whose body holds a finished record was refused unread.
C8_Witness ==
    /\ call \in Operations
    /\ response.status = 500
    /\ response.hasBody
    /\ Len(response.body) > 0
    /\ outcome = HttpError(500, "b3")
    /\ pos = 0

----------------------------------------------------------------------------
(* Properties of the session *)

RemoteMethods == Operations \cup {"end", "getReplayMetrics"}

StartSent == call = "init" /\ requests # <<>>

\* C5: no remote operation (act, extract, observe, navigate, agentExecute, end,
\* getReplayMetrics) sends a request while the client holds no session id: it fails
\* without a request.
C5_NoRequestWithoutSession ==
    (call \in RemoteMethods /\ sessionId = Unset)
    => /\ requests = <<>>
       /\ outcome.kind \notin {"return", None}

C7_InitErrorTaxonomy ==
    StartSent =>
        LET resp == initArgs.response
        IN /\ resp.status = 401 => outcome.kind = "StagehandAPIUnauthorizedError"
           /\ resp.status \notin {200, 401}
                => /\ outcome.kind = "StagehandHttpError"
                   /\ outcome.status = resp.status
                   /\ outcome.text = resp.text
           /\ (resp.status = 200 /\ ~resp.success)
                => outcome = StagehandAPIError(resp.message)
           /\ (resp.status = 200 /\ resp.success) => outcome.kind = "return"

----------------------------------------------------------------------------
(* Properties of the replay metrics *)

RECURSIVE SumOver(_, _)
SumOver(f, S) ==
    IF S = {} THEN 0
    ELSE LET g == CHOOSE x \in S : TRUE
         IN f[g] + SumOver(f, S \ {g})

CategorySum(c) == SumOver([g \in Categories |-> metrics[g][c]], Categories)

\* C9 (as stated): whatever the replay response holds, each total counter is the
\* sum of the act, extract, observe and agent counters of the same field.
C9_TotalsAreCategorySums ==
    \A c \in Counters : metrics["total"][c] = CategorySum(c)

\* C9 (amended): each total counter is the sum of the act, extract, observe and
\* agent counters of the same field plus the usage of the actions whose method is
\* none of the four; it is the sum of the four when no such action carries usage.
C9_TotalsAreSumsPlusOther ==
    \A c \in Counters : metrics["total"][c] = CategorySum(c) + unrecognised[c]

\* Three actions were folded, one under act and one under no category.
C9_Witness ==
    /\ call = "getReplayMetrics"
    /\ outcome = Return("metrics")
    /\ folded = 3
    /\ metrics["act"]["CompletionTokens"] > 0
    /\ unrecognised["CompletionTokens"] > 0
    /\ metrics["total"]["CompletionTokens"] > CategorySum("CompletionTokens")

\* The category an action's method names, compared without regard to case.
NamedCategory(method) ==
    CASE method \in {"act", "ACT"} -> "act"
      [] method \in {"extract", "Extract"} -> "extract"
      [] method \in {"observe"} -> "observe"
      [] method \in {"agent", "Agent"} -> "agent"
      [] OTHER -> "no category"

\* C10: an action with a token-usage record adds its usage to the category its
\* method names without regard to case and to the totals; under any other method
\* (agentExecute among them) it adds to the totals only; an action without a
\* token-usage record changes no counter; a missing usage field counts as 0.
C10_FoldByMethod ==
    [][folded' = folded + 1 =>
        LET a == lastAction'
            add(c) == IF a.tokenUsage[UsageField(c)] = Missing THEN 0
                      ELSE a.tokenUsage[UsageField(c)]
        IN IF ~a.hasUsage THEN metrics' = metrics
           ELSE \A g \in Categories \cup {"total"}, c \in Counters :
                    metrics'[g][c] =
                        metrics[g][c]
                        + (IF g = "total" \/ g = NamedCategory(a.method)
                           THEN add(c) ELSE 0)]_vars

\* An action with method ACT and only inputTokens was counted under act.
C10_Witness ==
    /\ pc = "folding"
    /\ folded = 2
    /\ lastAction = ReplayAction("ACT", TRUE, Usage(3, Missing, Missing, Missing, Missing))
    /\ metrics["act"]["PromptTokens"] = 3
    /\ metrics["total"]["PromptTokens"] = 4
    /\ metrics["act"]["CompletionTokens"] = 0

----------------------------------------------------------------------------
(* The agent step orchestrator: settled claims *)

\* The loop of the run has ended without a failure.
LoopEnded == apc \in {"finishing", "done"}

\* The run has handed an AgentResult to its caller.
HasAgentResult == agentResult.kind \in {"returned", "resolved"}

\* Some tool call of the step is a close with taskComplete set.
ClosesTask(event) ==
    \E i \in 1..Len(event.toolCalls) :
        event.toolCalls[i].toolName = "close" /\ event.toolCalls[i].taskComplete

\* C11: in the base handler a run in which no step has a close tool call goes
\* on until the step count is maxSteps, ends then, and reports completed:false;
\* a run whose first step has a close tool call ends after that one step, and
\* when the close has taskComplete set it reports completed:true with a
\* non-empty message.
C11_StopAfterCloseOrMaxSteps ==
    /\ (apc = "stepping" /\ history.closedAt = 0) => stepCount < run.maxSteps
    /\ (LoopEnded /\ history.closedAt = 0) => stepCount = run.maxSteps
    /\ (apc = "done" /\ history.closedAt = 0) => ~agentResult.value.completed
    /\ (history.closedAt = 1 /\ apc # "failed") => (LoopEnded /\ stepCount = 1)
    /\ (history.closedAt = 1 /\ apc = "done" /\ ClosesTask(lastStep)) =>
           (agentResult.value.completed /\ agentResult.value.message # <<>>)

\* A run of the base handler with maxSteps 3 ended after three steps without close.
C11_Witness ==
    /\ run.variant = "base"
    /\ run.maxSteps = 3
    /\ apc = "done"
    /\ history.closedAt = 0
    /\ stepCount = 3
    /\ agentResult.kind = "returned"
    /\ ~agentResult.value.completed

\* The run was cut short by a failure in its loop.
LoopFailed == apc = "failed" /\ stepLog # <<>>

\* C12 as stated: the completed flag is true exactly when a step had a close
\* tool call or the step budget is exhausted, and the result reports the flag.
C12_CompletedOnCloseOrBudget ==
    /\ LoopEnded =>
           (state.completed <=> (history.closedAt # 0 \/ stepCount = run.maxSteps))
    /\ (HasAgentResult /\ stepLog # <<>>) =>
           agentResult.value.completed = state.completed

\* C12, amended: the completed flag never reverts; it is true exactly when a
\* step had a close tool call or on_step_start asked to stop, and exhausting
\* the step budget leaves it as it is; the result of a run that finished
\* reports the flag and the result of a run that failed reports false.
C12_CompletedOnCloseOrStop ==
    [][/\ state.completed => state'.completed
       /\ state'.completed <=> (history'.closedAt # 0 \/ history'.stoppedAt # 0)
       /\ apc' = "done" => agentResult'.value.completed = state'.completed
       /\ (apc' = "failed" /\ agentResult'.kind = "returned") =>
              ~agentResult'.value.completed]_vars

\* A run used up its step budget without close and reports completed:false.
C12_Witness ==
    /\ apc = "done"
    /\ stepCount = run.maxSteps
    /\ history.closedAt = 0
    /\ history.stoppedAt = 0
    /\ ~state.completed
    /\ ~agentResult.value.completed

IsPrefix(s, t) == Len(s) <= Len(t) /\ SubSeq(t, 1, Len(s)) = s

\* C13: within a run every step leaves the earlier actions list as a prefix of
\* the later one, and the actions of the AgentResult handed to the caller, of a
\* finished or of a failed run, are that list.
C13_ActionsAppendOnly ==
    [][/\ IsPrefix(state.actions, state'.actions)
       /\ agentResult'.kind \in {"returned", "resolved"} =>
              agentResult'.value.actions = state'.actions]_vars

\* A run of two steps or more returned the actions of its steps, in order.
C13_Witness ==
    /\ apc = "done"
    /\ stepCount >= 2
    /\ Len(state.actions) >= 2
    /\ state.actions[1].type = "act"
    /\ state.actions[Len(state.actions)].type = "close"
    /\ agentResult.value.actions = state.actions

\* C14: when the loop of a blocking execute fails, because generateText throws
\* for the model client or a tool or because the step handler throws while it
\* resolves the active page URL, execute returns an AgentResult with
\* success:false, the actions recorded so far and a message that holds the
\* message of the error.
C14_LoopFailureIsResult ==
    (run.mode = "execute" /\ LoopFailed) =>
        /\ history.thrown \in {ModelError, ToolError, PageError}
        /\ agentResult.kind = "returned"
        /\ ~agentResult.value.success
        /\ agentResult.value.actions = state.actions
        /\ agentResult.value.message =
               <<"Failed to execute task: ">> \o history.thrown.message

\* The step handler of the second step threw after it had recorded actions.
C14_Witness ==
    /\ run.mode = "execute"
    /\ LoopFailed
    /\ stepCount = 2
    /\ history.thrown = PageError
    /\ Len(state.actions) >= 2
    /\ agentResult.kind = "returned"

\* C15: a run started on a handler without a usable model client ends with an
\* error raised to the caller, not with an AgentResult, and the model client
\* is never invoked.
C15_MissingModelRaises ==
    (apc # "idle" /\ ~run.llm) =>
        /\ agentResult.kind = "raised"
        /\ stepCount = 0
        /\ stepLog = <<>>

\* C16: when the loop of a stream run finishes, the result promise resolves to
\* the AgentResult execute returns for the same state and final step; when the
\* model client throws during streaming, the promise rejects with that error.
C16_StreamResolvesAsExecute ==
    /\ (run.mode = "stream" /\ apc = "done") =>
           /\ agentResult.kind = "resolved"
           /\ Returned(agentResult.value) = LoopFinish("execute", state, lastStep.text)
    /\ (run.mode = "stream" /\ LoopFailed /\ history.thrown = ModelError) =>
           agentResult = Rejected(ModelError)

\* A stream run with recorded actions ended by close and resolved its result.
C16_Witness ==
    /\ run.mode = "stream"
    /\ apc = "done"
    /\ stepCount >= 2
    /\ state.completed
    /\ Len(state.actions) >= 2
    /\ agentResult.kind = "resolved"
    /\ agentResult.value.message = <<"t", Blank, "t", Blank, "r">>

\* C17: a run in which every invoked hook raised ends as the same model steps
\* end on a handler without hooks: no hook error ends the loop, and the
\* AgentResult is the one the hook-less state gives.
C17_RaisingHooksChangeNothing ==
    (history.invoked /\ history.allRaised) =>
        /\ apc \in {"stepping", "finishing"} => state = plain
        /\ apc = "done" =>
               agentResult = Returned(consolidateMetricsAndResult(plain, lastStep.text))
        /\ LoopFailed =>
               /\ history.thrown \in {ModelError, ToolError, PageError}
               /\ agentResult = Returned(FailedResult(plain, history.thrown))

\* Both hooks raised at each of three steps and the run finished with actions.
C17_Witness ==
    /\ run.hooks = Hooks(TRUE, TRUE)
    /\ history.invoked
    /\ history.allRaised
    /\ apc = "done"
    /\ stepCount = 3
    /\ state.completed
    /\ Len(agentResult.value.actions) >= 2

Notes(what) == {i \in 1..Len(stepLog) : stepLog[i].what = what}

\* C18: once on_step_start has returned a truthy stop signal at step n, the
\* step records no action and on_step_end(n) is not invoked, and the run is
\* over: the model is not invoked for a step n + 1.
C18_StopEndsRun ==
    history.stoppedAt # 0 =>
        /\ apc # "stepping"
        /\ stepCount = history.stoppedAt
        /\ Notes("actions") = {}
        /\ Notes("on_step_end") = {}

\* C19: within a step the hooks and the work of the step come in the order
\* on_step_start(n), model call and tool executions of step n, recording of
\* the step's actions, on_step_end(n).
C19_HooksAroundStep ==
    /\ \A i \in Notes("on_step_start") :
           \A j \in Notes("model") \cup Notes("tools") \cup Notes("actions") : i < j
    /\ \A i \in Notes("on_step_end") :
           \A j \in Notes("model") \cup Notes("tools") \cup Notes("actions") : j < i
    /\ \A i \in 1..Len(stepLog) : stepLog[i].step = stepLog[1].step

\* C20: every AgentResult handed to the caller has success equal to completed
\* and a non-empty message; after a finished run both are the completed flag
\* and the message is 'Task execution completed' when there is no final
\* message, no reasoning and no model text; after a failed run both are false
\* and the message starts with 'Failed to execute task: '.
C20_SuccessIsCompleted ==
    HasAgentResult =>
        /\ agentResult.value.success = agentResult.value.completed
        /\ agentResult.value.message # <<>>
        /\ apc = "done" =>
               /\ agentResult.value.success = state.completed
               /\ (state.collectedReasoning = <<>> /\ lastStep.text = <<>>
                   /\ state.finalMessage = <<>>) =>
                      agentResult.value.message = <<"Task execution completed">>
        /\ apc = "failed" =>
               /\ ~agentResult.value.success
               /\ Head(agentResult.value.message) = "Failed to execute task: "

\* A run without reasoning, model text or close ended with the fallback message.
C20_Witness ==
    /\ apc = "done"
    /\ HasAgentResult
    /\ stepCount >= 2
    /\ Len(agentResult.value.actions) >= 1
    /\ ~agentResult.value.success
    /\ agentResult.value.message = <<"Task execution completed">>


\* C21: every run of the orchestrator that gets past preparation folds its
\* measured duration into the agent metrics exactly once, whether it finished
\* normally or failed and whether or not the model reported usage.
C21_DurationFoldedOnce ==
    (apc = "done" \/ LoopFailed) => metricsUpdates = 1


\* C22: a failure of executeAction surfaces out of the action handler: when the
\* page primitive the action invokes raises, or when the action's type is not
\* recognised (a failure result naming the type, no page primitive invoked),
\* the call of the action handler fails instead of completing.
C22_FailuresSurface ==
    handled.kind # "none" =>
        /\ (cuaEnv.raises /\ pageCalls # <<>>) => handled.kind = "raised"
        /\ (handled.result = UnknownAction(cuaAction.type)) =>
               /\ pageCalls = <<>>
               /\ handled.kind = "raised"

\* C23: a click, double_click or triple_click action whose primitive does not
\* raise invokes exactly one pointer click of the page at (x, y), with click
\* count 1, 2 or 3 respectively and the left button unless the action gives
\* others, whether or not a replay is recorded, and returns success.
C23_PointerClicks ==
    (/\ handled.kind # "none"
     /\ cuaAction.type \in {"click", "double_click", "triple_click"}
     /\ ~cuaEnv.raises) =>
        /\ Len(pageCalls) = 1
        /\ pageCalls[1].name = "click"
        /\ pageCalls[1].numbers = <<cuaAction.x, cuaAction.y>>
        /\ pageCalls[1].clickCount =
               IF cuaAction.type = "click" THEN Default(cuaAction.clickCount, 1)
               ELSE IF cuaAction.type = "double_click" THEN 2 ELSE 3
        /\ pageCalls[1].button =
               IF cuaAction.type = "click" THEN Default(cuaAction.button, "left")
               ELSE "left"
        /\ handled.result = Success

\* C24: a replay step is handed to v3.recordAgentReplayStep only while a replay
\* is recorded: for every action type, executeAction records nothing when
\* isAgentReplayActive() is false.
C24_RecordsOnlyWhenRecording ==
    ~cuaEnv.recording => replaySteps = <<>>


\* The selector of the one sub-action of the one replay step recorded, or
\* NoLocator when no step was recorded.
RecordedSelector ==
    IF Len(replaySteps) = 1 /\ Len(replaySteps[1].actions) = 1
    THEN replaySteps[1].actions[1].selector
    ELSE NoLocator

\* A click, type or drag was executed while a replay was recorded, and its
\* primitive did not raise.
RecordedPointerOrType ==
    /\ handled.kind = "completed"
    /\ cuaEnv.recording
    /\ \/ cuaAction.type \in {"click", "type"}
       \/ cuaAction.type = "drag" /\ Len(cuaAction.path) >= 2

\* C25, as stated: the locator the page reports is normalised before it is
\* recorded: one without the 'xpath=' prefix is recorded with the prefix added,
\* one that starts with 'xpath=' is recorded unchanged, and an empty,
\* whitespace-only or non-string value gives no locator; with no locator no
\* replay step is recorded and the action still returns success.
C25_LocatorPrefixed ==
    RecordedPointerOrType =>
        /\ handled.result = Success
        /\ IF ~cuaEnv.xpath.isString \/ Trim(cuaEnv.xpath.text) = <<>>
           THEN replaySteps = <<>>
           ELSE cuaAction.type # "drag" =>
                    RecordedSelector =
                        IF Head(cuaEnv.xpath.text) = XPathPrefix
                        THEN cuaEnv.xpath.text
                        ELSE <<XPathPrefix>> \o cuaEnv.xpath.text

\* C25, amended: the locator is trimmed of surrounding whitespace first; the
\* trimmed locator is recorded unchanged when it starts with 'xpath=' and with
\* the prefix added otherwise; an empty, whitespace-only or non-string value
\* gives no locator, and a click, type or drag with no locator records no
\* replay step and still returns success.
C25_LocatorTrimmedAndPrefixed ==
    RecordedPointerOrType =>
        /\ handled.result = Success
        /\ IF ~cuaEnv.xpath.isString \/ Trim(cuaEnv.xpath.text) = <<>>
           THEN replaySteps = <<>>
           ELSE cuaAction.type # "drag" =>
                    RecordedSelector =
                        IF Head(Trim(cuaEnv.xpath.text)) = XPathPrefix
                        THEN Trim(cuaEnv.xpath.text)
                        ELSE <<XPathPrefix>> \o Trim(cuaEnv.xpath.text)
        /\ cuaAction.type = "drag" =>
               IF \/ ~cuaEnv.toXpath.isString
                  \/ Trim(cuaEnv.toXpath.text) = <<>>
                  \/ ~cuaEnv.xpath.isString
                  \/ Trim(cuaEnv.xpath.text) = <<>>
               THEN replaySteps = <<>>
               ELSE /\ Len(replaySteps) = 1
                    /\ RecordedSelector # NoLocator
                    /\ Head(RecordedSelector) = XPathPrefix
                    /\ Head(replaySteps[1].actions[1].arguments) = XPathPrefix

\* A click was recorded whose reported locator had the prefix and trailing
\* whitespace.
C25_Witness ==
    /\ RecordedPointerOrType
    /\ cuaAction.type = "click"
    /\ cuaEnv.xpath = Value(TRUE, <<XPathPrefix, "/a", Blank>>)
    /\ RecordedSelector = <<XPathPrefix, "/a">>

\* n is the integer Math.round gives for the coordinate v, counted in halves.
IsRounded(n, v) == 2 * n - 1 <= v /\ v < 2 * n + 1

\* C26: while a replay is recorded and the page reports a locator, a click at
\* (x, y) that gives no button records exactly one replay step; the step has a
\* single sub-action, of method 'click', described as 'click at (x, y)' with the
\* coordinates rounded to integers.
C26_ClickRecorded ==
    (/\ handled.kind = "completed"
     /\ cuaAction.type = "click"
     /\ cuaAction.button = <<>>
     /\ cuaEnv.recording
     /\ cuaEnv.xpath.isString
     /\ Trim(cuaEnv.xpath.text) # <<>>) =>
        /\ Len(replaySteps) = 1
        /\ replaySteps[1].type = "act"
        /\ Len(replaySteps[1].actions) = 1
        /\ replaySteps[1].actions[1].method = "click"
        /\ replaySteps[1].actions[1].description.words = <<"click", "at">>
        /\ Len(replaySteps[1].actions[1].description.numbers) = 2
        /\ IsRounded(replaySteps[1].actions[1].description.numbers[1], cuaAction.x)
        /\ IsRounded(replaySteps[1].actions[1].description.numbers[2], cuaAction.y)
        /\ replaySteps[1].actionDescription = replaySteps[1].actions[1].description

\* A click at (1.5, 1.5) was recorded as 'click at (2, 2)'.
C26_Witness ==
    /\ handled.kind = "completed"
    /\ cuaAction.type = "click"
    /\ cuaAction.button = <<>>
    /\ cuaAction.x = 3
    /\ cuaAction.y = 3
    /\ Len(replaySteps) = 1
    /\ replaySteps[1].actions[1].description = Description(<<"click", "at">>, <<2, 2>>)


\* The result a call owes its caller, from the steps it made itself.
OwnResult(f) ==
    IF f.apc = "done"
    THEN consolidateMetricsAndResult(f.plain, f.lastStep.text)
    ELSE FailedResult(f.plain, f.history.thrown)

\* The call has ended after its preparation and has settled its result.
Ended(f) == f.apc = "done" \/ (f.apc = "failed" /\ f.stepLog # <<>>)

Active ==
    CallFrame(run, apc, state, stepCount, currentStepNumber, lastStep, stepLog,
              history, plain, agentResult, metricsUpdates)

\* C27: two calls of execute or stream on the same handler whose steps
\* interleave share no run state: the result of each holds the actions, the
\* message and the completed flag its own steps give, whatever the other did.
C27_RunsIsolated ==
    \A f \in {Active, suspended} :
        /\ InProgress(f.apc) => f.state = f.plain
        /\ Ended(f) =>
               /\ f.agentResult.kind \in {"returned", "resolved", "rejected"}
               /\ f.agentResult.kind = "rejected" =>
                      f.run.mode = "stream" /\ f.agentResult.error = f.history.thrown
               /\ f.agentResult.kind # "rejected" => f.agentResult.value = OwnResult(f)

\* Both calls were under way at once and both have finished, one with two
\* actions and not completed, the other completed by close.
C27_Witness ==
    /\ interleaved
    /\ apc = "done"
    /\ suspended.apc = "done"
    /\ Len(agentResult.value.actions) = 2
    /\ ~agentResult.value.completed
    /\ suspended.agentResult.value.completed
    /\ Len(suspended.agentResult.value.actions) = 1


\* C28: a run of the hook-enabled handler stops at the first step whose tool
\* calls include close, or when the step count reaches maxSteps, whichever is
\* first: once a step has called close the model is not invoked again.
C28_HookedStopsAtClose ==
    run.variant = "hooked" =>
        /\ apc = "stepping" => (history.closedAt = 0 /\ stepCount < run.maxSteps)
        /\ LoopEnded => (history.closedAt = stepCount \/ stepCount = run.maxSteps)


\* C29: every action a step records is tagged with the page URL the run
\* tracked before that step's actions were recorded, so all actions of one
\* step carry the same pageUrl; the tracked URL is refreshed from the page once
\* per step, after all of the step's tool calls, and only in a step that has a
\* tool call.
C29_TaggedWithUrlBeforeStep ==
    [][stepCount' = stepCount + 1 =>
          /\ Len(state'.actions) >= Len(state.actions)
          /\ \A i \in (Len(state.actions) + 1)..Len(state'.actions) :
                 state'.actions[i].pageUrl = state.currentPageUrl
          /\ state'.currentPageUrl =
                 IF history'.page # NoPage /\ ~history'.page.raises
                 THEN history'.page.url
                 ELSE state.currentPageUrl
          /\ history'.page # NoPage => lastStep'.toolCalls # <<>>
          /\ (run.variant = "base" /\ lastStep'.toolCalls # <<>>) =>
                 history'.page # NoPage]_vars

\* A step with two tool calls recorded two actions tagged with the URL tracked
\* before it, and the page had moved on by the end of the step.
C29_Witness ==
    /\ stepCount = 2
    /\ Len(lastStep.toolCalls) = 2
    /\ Len(state.actions) = 3
    /\ state.actions[1].pageUrl = "u1"
    /\ state.actions[2].pageUrl = "u2"
    /\ state.actions[3].pageUrl = "u2"
    /\ state.currentPageUrl = "u1"


\* The index of the first close call with taskComplete among the tool calls, 0
\* if there is none.
FirstTaskComplete(toolCalls) ==
    IF \E i \in 1..Len(toolCalls) :
           toolCalls[i].toolName = "close" /\ toolCalls[i].taskComplete
    THEN CHOOSE i \in 1..Len(toolCalls) :
           /\ toolCalls[i].toolName = "close" /\ toolCalls[i].taskComplete
           /\ \A j \in 1..(i - 1) :
                  ~(toolCalls[j].toolName = "close" /\ toolCalls[j].taskComplete)
    ELSE 0

\* The reasoning accumulated when tool call i of the step is handled: the
\* step's text is added once for each tool call up to it.
ReasoningAt(collectedReasoning, event, i) ==
    Join(collectedReasoning
         \o (IF event.text = <<>> THEN <<>> ELSE [j \in 1..i |-> event.text]))

\* Two texts joined by a blank, either of which may be empty.
JoinedWith(text, more) ==
    IF more = <<>> THEN text
    ELSE IF text = <<>> THEN more
    ELSE text \o <<Blank>> \o more

\* C30: a close tool call sets completed whatever its arguments; with
\* taskComplete it sets the final message to the accumulated reasoning joined
\* with the close call's reasoning, or to 'Task completed successfully' when
\* both are empty; without it the final message is at the finish the
\* accumulated reasoning, else the model's text, else 'Task execution
\* completed'; a final message set by close is not overwritten at the finish.
C30_CloseSetsFinalMessage ==
    [][/\ (stepCount' = stepCount + 1 /\ HasClose(lastStep') /\ apc' # "failed") =>
              /\ state'.completed
              /\ LET i == FirstTaskComplete(lastStep'.toolCalls)
                 IN  IF i = 0 THEN state'.finalMessage = <<>>
                     ELSE state'.finalMessage =
                              IF /\ ReasoningAt(state.collectedReasoning, lastStep', i) = <<>>
                                 /\ lastStep'.toolCalls[i].reasoning = <<>>
                              THEN <<"Task completed successfully">>
                              ELSE JoinedWith(
                                       ReasoningAt(state.collectedReasoning, lastStep', i),
                                       lastStep'.toolCalls[i].reasoning)
       /\ (apc = "finishing" /\ apc' = "done") =>
              agentResult'.value.message =
                  IF state.finalMessage # <<>> THEN state.finalMessage
                  ELSE IF Join(state.collectedReasoning) # <<>>
                       THEN Join(state.collectedReasoning)
                       ELSE IF lastStep.text # <<>> THEN lastStep.text
                       ELSE <<"Task execution completed">>]_vars

\* A run finished whose close call had taskComplete and reasoning, after text
\* had been accumulated: the message is the two joined.
C30_Witness ==
    /\ apc = "done"
    /\ stepCount = 2
    /\ HasClose(lastStep)
    /\ agentResult.value.completed
    /\ agentResult.value.message = <<"t", Blank, "r">>


\* C31: the best-effort sub-steps never fail an action: when the injection of
\* the cursor overlay raises, or the capture of the screenshot after the action
\* raises, the action handler still executes the action and completes; the
\* capture gives null on a failure and does not raise.
C31_BestEffortSubSteps ==
    (/\ handled.kind # "none"
     /\ cuaEnv.cursorFails \/ cuaEnv.screenshotFails
     /\ ~(cuaEnv.raises /\ pageCalls # <<>>)) =>
        /\ handled.kind = "completed"
        /\ handled.error = NoError
        /\ \E i \in 1..Len(handled.steps) : handled.steps[i] = "executeAction"
        /\ cuaAction.type = "click" => Len(pageCalls) = 1
        /\ cuaEnv.screenshotFails => handled.screenshot = "null"

\* A click was executed and the handler completed although the capture of the
\* screenshot failed.
C31_Witness ==
    /\ handled.kind = "completed"
    /\ cuaAction.type = "click"
    /\ cuaEnv.screenshotFails
    /\ Len(pageCalls) = 1
    /\ handled.screenshot = "null"


\* C32: a drag whose path has at least 2 points invokes exactly one drag
\* primitive, from the first point of the path to the last, with as many steps
\* as the path has points but at least 5 and at most 20; a drag whose path has
\* fewer than 2 points invokes no primitive, records nothing and returns
\* success.
C32_DragStepsClamped ==
    (handled.kind # "none" /\ cuaAction.type = "drag") =>
        IF Len(cuaAction.path) >= 2
        THEN /\ Len(pageCalls) = 1
             /\ pageCalls[1].name = "dragAndDrop"
             /\ SubSeq(pageCalls[1].numbers, 1, 4) =
                    <<cuaAction.path[1].x, cuaAction.path[1].y,
                      cuaAction.path[Len(cuaAction.path)].x,
                      cuaAction.path[Len(cuaAction.path)].y>>
             /\ pageCalls[1].numbers[5] \in 5..20
             /\ Len(cuaAction.path) \in 5..20 =>
                    pageCalls[1].numbers[5] = Len(cuaAction.path)
             /\ Len(cuaAction.path) < 5 => pageCalls[1].numbers[5] = 5
             /\ Len(cuaAction.path) > 20 => pageCalls[1].numbers[5] = 20
        ELSE /\ pageCalls = <<>>
             /\ replaySteps = <<>>
             /\ handled.kind = "completed"
             /\ handled.result = Success

\* A drag along 21 points was made in 20 steps.
C32_Witness ==
    /\ handled.kind = "completed"
    /\ cuaAction.type = "drag"
    /\ Len(cuaAction.path) = 21
    /\ Len(pageCalls) = 1
    /\ pageCalls[1].numbers[5] = 20


\* The words of the description of the recorded type action.
TypeDescription == replaySteps[1].actions[1].description.words

\* A text was typed and recorded.
TypeRecorded ==
    /\ handled.kind = "completed"
    /\ cuaAction.type = "type"
    /\ Len(replaySteps) = 1

\* C33, as stated: the description of a recorded type action holds the whole
\* text when the text has at most 27 characters, and the first 27 characters
\* followed by '...' when it has more.
C33_PreviewOver27 ==
    TypeRecorded =>
        TypeDescription =
            IF Len(cuaAction.text) <= 27 THEN <<"type">> \o cuaAction.text
            ELSE <<"type">> \o SubSeq(cuaAction.text, 1, 27) \o <<"...">>

\* C33, amended: the description of a recorded type action holds the whole
\* text when the text has at most 30 characters, and the first 27 characters
\* followed by '...' when it has more than 30.
C33_PreviewOver30 ==
    TypeRecorded =>
        TypeDescription =
            IF Len(cuaAction.text) <= 30 THEN <<"type">> \o cuaAction.text
            ELSE <<"type">> \o SubSeq(cuaAction.text, 1, 27) \o <<"...">>

\* A text of 31 characters was recorded with a preview of 27 characters and the
\* ellipsis.
C33_Witness ==
    /\ TypeRecorded
    /\ Len(cuaAction.text) = 31
    /\ Len(TypeDescription) = 29
    /\ TypeDescription[29] = "..."


\* The messages handed to the logger as forwarded log events, in order.
RECURSIVE Forwarded(_)
Forwarded(entries) ==
    IF entries = <<>> THEN <<>>
    ELSE (IF Head(entries).category = "log" THEN <<Head(entries).text>> ELSE <<>>)
         \o Forwarded(Tail(entries))

\* The records that arrived whole, each ended by a record separator.
Terminated == Front(Records)

\* How many of the terminated records arrive before the terminal one: all of
\* them when none ends the call.
BeforeTerminal ==
    IF \E i \in 1..Len(Terminated) : ~Benign(Terminated[i])
    THEN (CHOOSE i \in 1..Len(Terminated) :
              ~Benign(Terminated[i]) /\ \A j \in 1..(i - 1) : Benign(Terminated[j])) - 1
    ELSE Len(Terminated)

\* The messages of the log records among the first n records, in arrival
\* order, the server-internal message left out.
RECURSIVE LogMessages(_, _)
LogMessages(records, n) ==
    IF n = 0 THEN <<>>
    ELSE LogMessages(records, n - 1)
         \o (IF IsRecordOf(records[n], {"L1"}) THEN <<"m1">>
             ELSE IF IsRecordOf(records[n], {"L2"}) THEN <<"m2">>
             ELSE <<>>)

\* C34: dispatch handles the records in arrival order: the log records that
\* arrive before the terminal record are forwarded to the logger once each and
\* in arrival order, except the log 'Connecting to local browser', which is
\* suppressed; records without the 'data: ' prefix are skipped; no log record
\* after the terminal record is forwarded.
C34_LogsForwardedInOrder ==
    (pc = "done" /\ Streamed) =>
        Forwarded(logs) = LogMessages(Terminated, BeforeTerminal)

\* Two log records arrived one after the other, each ended by a separator, and
\* were forwarded in that order.
C34_Witness ==
    /\ pc = "done"
    /\ Streamed
    /\ Len(Records) = 3
    /\ IsRecordOf(Records[1], {"L2"})
    /\ IsRecordOf(Records[2], {"L1"})
    /\ Forwarded(logs) = <<"m2", "m1">>


\* What the decode loop gives for a body that arrives as a single chunk: the
\* pass over the chunk and, if the call has not ended, the pass that finds the
\* stream closed.
OneChunk(body) ==
    IF body = <<>> THEN Iteration(<<>>, <<>>, TRUE)
    ELSE LET first == Iteration(<<>>, body, FALSE)
             last == Iteration(first.buffer, <<>>, TRUE)
         IN  IF first.outcome # NoOutcome THEN first
             ELSE Pass(last.outcome, last.buffer, first.logs \o last.logs,
                       first.examined \o last.examined)

\* C35: the outcome of dispatch and the log messages it forwards do not depend
\* on how the body is cut into chunks: whatever the chunks were, inside a
\* record or between the two newlines of a separator, the call ends as it does
\* for the body arriving as one chunk, and with the same logger calls.
C35_ChunkingIndependent ==
    (pc = "done" /\ Streamed) =>
        /\ outcome = OneChunk(response.body).outcome
        /\ logs = OneChunk(response.body).logs

\* A log and a finished record, where the log's separator was cut between its
\* two newlines: the log was examined only when the read ending after the
\* finished event came in.
C35_Witness ==
    /\ pc = "done"
    /\ Streamed
    /\ response.body = <<"L1", NL, NL, "F1", NL, NL>>
    /\ Len(processed) = 2
    /\ processed[1].at = 5
    /\ outcome = Return("r1")
    /\ Forwarded(logs) = <<"m1">>


\* The stream closed with a non-empty buffer: no terminated record ended the
\* call, and the body does not end in a separator.
ClosedOnRemainder ==
    /\ pc = "done"
    /\ Streamed
    /\ BeforeTerminal = Len(Terminated)
    /\ Last(Records) # <<>>

\* C36: when the stream closes with a non-empty buffer, only a finished system
\* event in the buffer is honoured, and its result returned; a trailing system
\* error event, a trailing log event, a malformed payload or a record without
\* the 'data: ' prefix ends the call in StagehandServerError, and a trailing
\* log event is not forwarded to the logger.
C36_OnlyFinishedHonouredAtEnd ==
    ClosedOnRemainder =>
        /\ eof
        /\ outcome = IF IsFinished(Last(Records)) THEN Return(ResultOf(Last(Records)))
                     ELSE StagehandServerError
        /\ Forwarded(logs) = LogMessages(Terminated, Len(Terminated))

\* The stream closed on a log event without separator, after a log that had
\* one: the first was forwarded, the last was not, and the call failed.
C36_Witness ==
    /\ ClosedOnRemainder
    /\ Len(Records) = 2
    /\ IsRecordOf(Records[1], {"L1"})
    /\ IsRecordOf(Records[2], {"L2"})
    /\ Forwarded(logs) = <<"m1">>
    /\ outcome = StagehandServerError


\* The step is a call of init.
InitCalled == call' = "init" /\ pc' = "done" /\ initArgs' # NoInit

\* C37: an init that fails, for a missing modelApiKey, a 401, another status
\* than 200 or a body with success false, leaves the stored session id as it
\* was before the call; with the modelApiKey missing no request is sent.
C37_FailedInitKeepsSession ==
    [][(InitCalled /\ outcome'.kind # "return") =>
          /\ sessionId' = sessionId
          /\ initArgs'.args.modelApiKey = None => requests' = <<>>]_vars

\* An init failed with status 500 on a client that held the session s1 from an
\* earlier init, and still holds it.
C37_Witness ==
    /\ call = "init"
    /\ pc = "done"
    /\ outcome.kind = "StagehandHttpError"
    /\ initArgs.response.status = 500
    /\ sessionId = "s1"


\* The session-creation parameters of the init name a region other than
\* 'us-west-2'.
OtherRegion(args) == args.region # None /\ args.region # "us-west-2"

\* C38, as stated: an init whose parameters name a region other than
\* 'us-west-2' sends no request, returns the caller's session id, or null, with
\* available false, and leaves the stored session id unchanged.
C38_OtherRegionReturns ==
    [][(InitCalled /\ OtherRegion(initArgs'.args)) =>
          /\ requests' = <<>>
          /\ outcome' = StartSessionResult(
                            IF initArgs'.args.browserbaseSessionID = None THEN "null"
                            ELSE initArgs'.args.browserbaseSessionID, FALSE)
          /\ sessionId' = sessionId]_vars

\* C38, amended: an init that is given a modelApiKey and whose parameters name
\* a region other than 'us-west-2' sends no request, returns the caller's
\* session id, or null, with available false, and leaves the stored session id
\* unchanged; without a modelApiKey it fails before it looks at the region,
\* sending no request and leaving the stored session id unchanged as well.
C38_OtherRegionReturnsWithKey ==
    [][(InitCalled /\ OtherRegion(initArgs'.args)) =>
          /\ requests' = <<>>
          /\ sessionId' = sessionId
          /\ outcome' =
                 IF initArgs'.args.modelApiKey = None
                 THEN StagehandAPIError("modelApiKey is required")
                 ELSE StartSessionResult(
                          IF initArgs'.args.browserbaseSessionID = None THEN "null"
                          ELSE initArgs'.args.browserbaseSessionID, FALSE)]_vars

\* A fresh client was initialised for eu-central-1 with a caller's session id:
\* nothing was sent, the caller's id came back and the client holds no session.
C38_Witness ==
    /\ call = "init"
    /\ pc = "done"
    /\ initArgs.args.region = "eu-central-1"
    /\ initArgs.args.modelApiKey # None
    /\ requests = <<>>
    /\ outcome = StartSessionResult("c1", FALSE)
    /\ sessionId = Unset


\* The invocations of one hook, in order.
CallsOf(hook) == SelectSeq(history.hookCalls, LAMBDA c : c.hook = hook)

\* The steps at which on_step_start returned a stop signal.
StoppedSteps ==
    {CallsOf("on_step_start")[i].stepNumber :
        i \in {j \in 1..Len(CallsOf("on_step_start")) : CallsOf("on_step_start")[j].stop}}

\* The steps for which on_step_end was invoked.
EndedSteps == {CallsOf("on_step_end")[i].stepNumber : i \in 1..Len(CallsOf("on_step_end"))}

RECURSIVE SumPerformed(_)
SumPerformed(calls) ==
    IF calls = <<>> THEN 0 ELSE calls[1].actionsPerformed + SumPerformed(Tail(calls))

\* The stepNumber passed to the hooks is 1, 2, 3, ..., one more per model
\* step, and never exceeds maxSteps.
StepNumbersCount ==
    /\ currentStepNumber <= run.maxSteps
    /\ run.hooks.on_step_start =>
          /\ Len(CallsOf("on_step_start")) = currentStepNumber
          /\ \A i \in 1..currentStepNumber : CallsOf("on_step_start")[i].stepNumber = i
    /\ \A i \in 1..Len(CallsOf("on_step_end")) :
          /\ CallsOf("on_step_end")[i].stepNumber \in 1..currentStepNumber
          /\ \A j \in 1..(i - 1) :
                CallsOf("on_step_end")[j].stepNumber < CallsOf("on_step_end")[i].stepNumber

\* The step whose handler threw when it asked the page for its URL, if any.
ThrownSteps == IF history.thrown = PageError THEN {currentStepNumber} ELSE {}

\* C39, as stated: in a hooked run with both hooks the stepNumber passed is
\* 1, 2, 3, ... up to maxSteps at most, on_step_end is invoked exactly once
\* for every step in which on_step_start did not return a stop signal, and
\* the actionsPerformed passed to it add up to the length of the actions list.
C39_EveryStepAccounted ==
    (run.variant = "hooked" /\ run.hooks.on_step_end) =>
        /\ StepNumbersCount
        /\ EndedSteps = (1..currentStepNumber) \ StoppedSteps
        /\ SumPerformed(CallsOf("on_step_end")) = Len(state.actions)
        /\ agentResult.kind = "returned" =>
              SumPerformed(CallsOf("on_step_end")) = Len(agentResult.value.actions)

\* C39, amended: the stepNumber passed is 1, 2, 3, ... up to maxSteps at most;
\* on_step_end is invoked exactly once for every step in which on_step_start
\* did not return a stop signal and the step handler did not throw; the
\* actionsPerformed passed add up to the length of the actions list unless the
\* step handler threw reading the page URL, in which case the run fails and
\* the actions of that last step are in the list but were passed to no
\* on_step_end.
C39_CompletedStepsAccounted ==
    (run.variant = "hooked" /\ run.hooks.on_step_end) =>
        /\ StepNumbersCount
        /\ EndedSteps = ((1..currentStepNumber) \ StoppedSteps) \ ThrownSteps
        /\ history.thrown # PageError =>
              SumPerformed(CallsOf("on_step_end")) = Len(state.actions)
        /\ history.thrown = PageError =>
              /\ agentResult.kind = "returned"
              /\ ~agentResult.value.success
              /\ agentResult.value.actions = state.actions
              /\ SumPerformed(CallsOf("on_step_end")) <= Len(state.actions)
        /\ (agentResult.kind = "returned" /\ history.thrown # PageError) =>
              SumPerformed(CallsOf("on_step_end")) = Len(agentResult.value.actions)

\* A run of three steps returned three actions: on_step_start stopped step 2,
\* and on_step_end was passed 2 actions at step 1 and 1 action at step 3.
C39_Witness ==
    /\ run.variant = "hooked"
    /\ apc = "done"
    /\ agentResult.kind = "returned"
    /\ Len(agentResult.value.actions) = 3
    /\ StoppedSteps = {2}
    /\ CallsOf("on_step_end") =
           <<HookCall("on_step_end", 1, 2, FALSE), HookCall("on_step_end", 3, 1, FALSE)>>


\* k copies of the text of a step, none if the text is empty.
Pushed(text, k) == IF text = <<>> THEN <<>> ELSE [j \in 1..k |-> text]

\* C40: a model step with non-empty text and k tool calls appends that text to
\* the collected reasoning k times, the i-th time before the close handling of
\* the i-th tool call, so that a close call with taskComplete at position i
\* builds its message from i copies; a step with no tool calls, or with empty
\* text, appends nothing; the collected reasoning only grows, at its end.
C40_ReasoningOncePerToolCall ==
    [][/\ IsPrefix(state.collectedReasoning, state'.collectedReasoning)
       /\ (stepCount' = stepCount + 1 /\ run.variant = "base") =>
              /\ state'.collectedReasoning =
                     state.collectedReasoning
                     \o Pushed(lastStep'.text, Len(lastStep'.toolCalls))
              /\ \A i \in 1..Len(lastStep'.toolCalls) :
                    (/\ lastStep'.text # <<>>
                     /\ lastStep'.toolCalls[i].toolName = "close"
                     /\ lastStep'.toolCalls[i].taskComplete
                     /\ \A j \in (i + 1)..Len(lastStep'.toolCalls) :
                            lastStep'.toolCalls[j].toolName # "close") =>
                        state'.finalMessage =
                            JoinedWith(Join(state.collectedReasoning
                                            \o Pushed(lastStep'.text, i)),
                                       lastStep'.toolCalls[i].reasoning)]_vars

\* After a step with text s and one tool call, a step with text t, an act and
\* a close: the reasoning is s, t, t and the close message was built from it.
C40_Witness ==
    /\ run.variant = "base"
    /\ stepCount = 2
    /\ lastStep = StepEvent(<<"t">>, <<Act, CloseDone>>)
    /\ state.collectedReasoning = << <<"s">>, <<"t">>, <<"t">> >>
    /\ state.finalMessage = <<"s", Blank, "t", Blank, "t", Blank, "r">>

====
